---- MODULE Spec2Model ----
(***************************************************************************)
(* A model of the load-generation core of the benchmark client:            *)
(*   - AsyncHTTPExecuter (benchmark/asynchttpexecuter.py): the run loop,    *)
(*     the concurrency bound, the drain and the termination handler;        *)
(*   - _run_load.request_func (benchmark/loadcmd.py): one request task;     *)
(*   - _StatsAggregator (benchmark/statsaggregator.py): the counters, the   *)
(*     sample windows and the raw records;                                  *)
(*   - OAIRequester (benchmark/oairequester.py): one call() with its retry  *)
(*     loop, the backoff decorator and the stream parser.                   *)
(* Time is a discrete clock in seconds that the action Tick advances.       *)
(* Optional values (Python's None) are sequences: None is << >> and a set   *)
(* value x is <<x>>.                                                        *)
(***************************************************************************)
EXTENDS Integers, Sequences, FiniteSets, TLC

VARIABLES
    now,                      \* time.time()
    alive,                    \* FALSE once os._exit(0) has run
    pc,                       \* position of AsyncHTTPExecuter._run
    terminate,                \* AsyncHTTPExecuter.terminate
    run_end_conditions_met,   \* local of _run
    calls_made,               \* local of _run
    request_tasks,            \* local of _run: the tracked set of tasks
    start_time,               \* local of _run
    duration,                 \* argument of run(): None or seconds
    max_concurrency,          \* AsyncHTTPExecuter.max_concurrency
    drain_start,              \* when the drain wait (timeout=30) began
    finish_calls,             \* number of invocations of finish_run_func
    run_error,                \* the exception that left _run, or None
    signals,                  \* SIGINT/SIGTERM delivered to the process
    tasks,                    \* the request tasks created by the loop
    aggregator,               \* the _StatsAggregator of the run
    rq,                       \* one OAIRequester.call(): position and stats
    backoff,                  \* OAIRequester.backoff
    exposes_response,         \* whether a ClientResponseError has .response
    agg,                      \* the _StatsAggregator as a thread: its
                              \* configuration, its loop, stop() and readers
    request_builder,          \* the _RequestBuilder of the run
    posted,                   \* the body OAIRequester.call() posts
    jobs,                     \* api: the BenchmarkJob objects and their threads
    current_job               \* api: the global current_job

execVars == <<pc, terminate, run_end_conditions_met, calls_made, request_tasks,
              start_time, duration, max_concurrency, drain_start,
              finish_calls, run_error>>
procVars == <<alive, signals>>
reqVars == <<rq, backoff, exposes_response>>
runVars == <<execVars, procVars, tasks, aggregator>>
apiVars == <<jobs, current_job>>
otherVars == <<agg, request_builder, posted, apiVars>>
vars == <<now, runVars, reqVars, otherVars>>

----------------------------------------------------------------------------
(* Bounds of the model *)

MaxClients == 1      \* max_concurrency ranges over 1..MaxClients
MaxCalls == 3        \* the loop dispatches at most MaxCalls requests
MaxTime == 60        \* the clock stops at MaxTime
MaxSignals == 1      \* signals delivered to the process
MessagesTokens == 1  \* the token count the request builder reports
MaxPosts == 3        \* a call() posts at most MaxPosts attempts
MaxLines == 2        \* the lines of a streamed body in ReqSpec
MaxFrames == 3       \* the lines of a streamed body in StreamSpec
MaxRecords == 3      \* the requests aggregated in AggSpec
MaxSamples == 2      \* the requests aggregated in TickSpec
MaxRunSeconds == 90  \* the clock of TickSpec stops at MaxRunSeconds
MaxLocked == 2       \* the requests aggregated in LockSpec
MaxRuns == 2         \* the calls of run() on one executer in RerunSpec
MaxJobs == 3         \* the requests posted to the api in JobSpec

(* Program constants *)

DRAIN_TIMEOUT == 30              \* asyncio.wait(request_tasks, timeout=30)
MIN_DURATION == 30               \* _validate: duration must be >= 30
NETWORK_LATENCY_ADJUSTMENT == 0  \* load(): network_latency_adjustment = 0
WINDOW_DURATION == 60            \* _StatsAggregator: window_duration=60
DUMP_DURATION == 1               \* _run_load: dump_duration=1

(* The clock advances in steps of the drain timeout. *)
TimeQuantum == DRAIN_TIMEOUT

None == << >>
Some(x) == <<x>>

TaskIds == 1..MaxCalls

----------------------------------------------------------------------------
(* RequestStats and _Samples *)

RequestStats ==
    [request_start_time |-> None, response_status_code |-> 0,
     response_time |-> None, first_token_time |-> None,
     response_end_time |-> None, context_tokens |-> 0,
     generated_tokens |-> None, calls |-> 0, last_exception |-> None,
     output_content |-> << >>]

as_dict(stats) ==
    [request_start_time |-> stats.request_start_time,
     response_status_code |-> stats.response_status_code,
     response_time |-> stats.response_time,
     first_token_time |-> stats.first_token_time,
     response_end_time |-> stats.response_end_time,
     context_tokens |-> stats.context_tokens,
     generated_tokens |-> stats.generated_tokens,
     calls |-> stats.calls,
     last_exception |-> stats.last_exception]

_append(samples, timestamp, value) == Append(samples, <<timestamp, value>>)

----------------------------------------------------------------------------
(* _StatsAggregator *)

StatsAggregatorInit ==
    [processing_requests_count |-> 0, total_requests_count |-> 0,
     total_failed_count |-> 0, throttled_count |-> 0,
     request_timestamps |-> << >>, request_latency |-> << >>,
     call_tries |-> << >>, response_latencies |-> << >>,
     first_token_latencies |-> << >>, token_latencies |-> << >>,
     context_tokens |-> << >>, generated_tokens |-> << >>,
     raw_stat_dicts |-> << >>]

(* Mutant: record_new_request counts nothing. *)
record_new_request_Nothing(a) == a

record_new_request(a) ==
    [a EXCEPT !.processing_requests_count = @ + 1]

(* The else branch of aggregate_request (status 200), statement by          *)
(* statement: an arithmetic on None raises TypeError, which ends the try    *)
(* body and keeps what the earlier statements appended.                     *)
AggregateSuccess(a, stats) ==
    IF stats.request_start_time = None \/ stats.response_end_time = None
    THEN a
    ELSE
      LET start == stats.request_start_time[1]
          request_latency == stats.response_end_time[1] - start
                               - NETWORK_LATENCY_ADJUSTMENT
          b1 == [a EXCEPT
                   !.request_latency = _append(@, start, request_latency),
                   !.request_timestamps = _append(@, start, start)]
      IN IF stats.response_time = None THEN b1
         ELSE
           LET b2 == [b1 EXCEPT !.response_latencies =
                        _append(@, start, stats.response_time[1] - start
                                            - NETWORK_LATENCY_ADJUSTMENT)]
           IN IF stats.first_token_time = None THEN b2
              ELSE
                LET b3 == [b2 EXCEPT !.first_token_latencies =
                             _append(@, start, stats.first_token_time[1] - start
                                                 - NETWORK_LATENCY_ADJUSTMENT)]
                IN IF stats.generated_tokens = None THEN b3
                   ELSE
                     LET gen == stats.generated_tokens[1]
                         \* token_latency is the quotient num / gen, kept exact
                         num == stats.response_end_time[1]
                                  - stats.first_token_time[1]
                                  - NETWORK_LATENCY_ADJUSTMENT
                         b4 == IF gen > 0
                               THEN [b3 EXCEPT !.token_latencies =
                                       _append(@, start, <<num, gen>>)]
                               ELSE b3
                     IN [b4 EXCEPT
                           !.context_tokens =
                               _append(@, start, stats.context_tokens),
                           !.generated_tokens = _append(@, start, gen)]

(* Mutant: the raw record is appended inside the try block, so a record    *)
(* whose samples cannot be computed is lost.                               *)
aggregate_request_LosesRecord(a, stats) ==
    LET a1 == [a EXCEPT
                 !.processing_requests_count = @ - 1,
                 !.total_requests_count = @ + 1,
                 !.call_tries = _append(@, stats.request_start_time, stats.calls)]
        a2 == IF stats.response_status_code # 200
              THEN [a1 EXCEPT
                      !.total_failed_count = @ + 1,
                      !.throttled_count =
                          IF stats.response_status_code = 429 THEN @ + 1 ELSE @]
              ELSE AggregateSuccess(a1, stats)
    IN IF stats.response_status_code = 200
            /\ (stats.first_token_time = None \/ stats.generated_tokens = None)
       THEN a2
       ELSE [a2 EXCEPT !.raw_stat_dicts = Append(@, as_dict(stats))]

(* Mutant: every failed request counts as throttled. *)
aggregate_request_ThrottleAll(a, stats) ==
    LET a1 == [a EXCEPT
                 !.processing_requests_count = @ - 1,
                 !.total_requests_count = @ + 1,
                 !.call_tries = _append(@, stats.request_start_time, stats.calls)]
        a2 == IF stats.response_status_code # 200
              THEN [a1 EXCEPT !.total_failed_count = @ + 1,
                              !.throttled_count = @ + 1]
              ELSE AggregateSuccess(a1, stats)
    IN [a2 EXCEPT !.raw_stat_dicts = Append(@, as_dict(stats))]

aggregate_request(a, stats) ==
    LET a1 == [a EXCEPT
                 !.processing_requests_count = @ - 1,
                 !.total_requests_count = @ + 1,
                 !.call_tries = _append(@, stats.request_start_time, stats.calls)]
        a2 == IF stats.response_status_code # 200
              THEN [a1 EXCEPT
                      !.total_failed_count = @ + 1,
                      !.throttled_count =
                          IF stats.response_status_code = 429 THEN @ + 1 ELSE @]
              ELSE AggregateSuccess(a1, stats)
    IN [a2 EXCEPT !.raw_stat_dicts = Append(@, as_dict(stats))]

----------------------------------------------------------------------------
(* _StatsAggregator as a thread: the attributes __init__ sets, the loop of *)
(* run(), _dump, _slide_window, stop() and get_latest_metrics.             *)

Min(a, b) == IF a < b THEN a ELSE b

(* __init__, with the class attributes start_time = 0 and terminate (an    *)
(* annotation without a value: the attribute does not exist until run()    *)
(* sets it).  _latest_metrics is None for the empty dict.  pc is the       *)
(* position of the thread, stop that of the caller of stop(), ret the      *)
(* mapping get_latest_metrics returned last; at_stop keeps the counters as *)
(* they were when stop() was called.  lock is the class attribute lock,    *)
(* None when free and the thread that holds it otherwise; th is the        *)
(* position of each thread that calls a method of the aggregator; second  *)
(* is None until another _StatsAggregator is constructed in the process,   *)
(* and then the attributes that instance owns.                             *)
Threads == {"task", "ticker", "stopper", "reader"}

ThreadIdle == [at |-> "idle", op |-> "none", kind |-> "ok", local |-> None]

NewAggregator(clients, json_output) ==
    [clients |-> clients,
     dump_duration |-> DUMP_DURATION,
     window_duration |-> WINDOW_DURATION,
     json_output |-> json_output,
     _latest_metrics |-> None,
     start_time |-> 0,
     terminate |-> None,
     pc |-> "created",
     wait_start |-> 0,
     error |-> None,
     stop |-> "no",
     stop_error |-> None,
     at_stop |-> None,
     ret |-> None,
     lock |-> None,
     th |-> [t \in Threads |-> ThreadIdle],
     second |-> None]

(* _Samples._trim_oldest at the instant t: samples are popped from the     *)
(* head while the head is older than window seconds (its duration).        *)
RECURSIVE _trim_oldest(_, _, _)
_trim_oldest(samples, window, t) ==
    IF Len(samples) > 0 /\ (t - samples[1][1]) > window
    THEN _trim_oldest(Tail(samples), window, t)
    ELSE samples

(* _slide_window at the instant t.  The timestamps of call_tries are the   *)
(* request_start_time as aggregate_request was given it (a set value).     *)
_slide_window(a, window, t) ==
    LET tries == [i \in 1..Len(a.call_tries) |->
                    <<a.call_tries[i][1][1], a.call_tries[i][2]>>]
        kept == Len(_trim_oldest(tries, window, t))
    IN [a EXCEPT
          !.call_tries = SubSeq(@, Len(@) - kept + 1, Len(@)),
          !.request_timestamps = _trim_oldest(@, window, t),
          !.response_latencies = _trim_oldest(@, window, t),
          !.first_token_latencies = _trim_oldest(@, window, t),
          !.token_latencies = _trim_oldest(@, window, t),
          !.context_tokens = _trim_oldest(@, window, t),
          !.generated_tokens = _trim_oldest(@, window, t)]

(* _dump at the instant t: the mapping it leaves in _latest_metrics and    *)
(* the exception it ends with.  The clock counts whole seconds, so         *)
(* round(time.time() - start_time) is t - start_time.  rpm is kept as the  *)
(* quotient <<60 * len, dynamic_window>>, None for "n/a"; the division by  *)
(* a dynamic_window of 0 raises ZeroDivisionError before the mapping is    *)
(* assigned.  The text format names util_avg and util_95th, which are not  *)
(* defined: NameError, after the mapping is assigned.  The averages and    *)
(* percentiles numpy computes are not followed.                             *)
_dump(a, g, t) ==
    LET run_seconds == t - g.start_time
        dynamic_window == Min(run_seconds, g.window_duration)
        rpm == IF Len(a.request_timestamps) > 0
               THEN Some(<<60 * Len(a.request_timestamps), dynamic_window>>)
               ELSE None
        processing_requests_count ==
            Min(g.clients, a.processing_requests_count)
        metrics == [run_seconds |-> run_seconds,
                    rpm |-> rpm,
                    processing |-> processing_requests_count,
                    completed_requests |-> a.total_requests_count,
                    failed_requests |-> a.total_failed_count,
                    throttled_requests |-> a.throttled_count]
    IN IF Len(a.request_timestamps) > 0 /\ dynamic_window = 0
       THEN [_latest_metrics |-> g._latest_metrics,
             exc |-> Some("ZeroDivisionError")]
       ELSE [_latest_metrics |-> Some(metrics),
             exc |-> IF g.json_output THEN None ELSE Some("NameError")]

(* Mutant: the mapping itself is returned, not a copy. *)
get_latest_metrics_NoCopy(g) ==
    [value |-> g._latest_metrics, aliased |-> TRUE]

(* get_latest_metrics: a copy of the mapping.  aliased tells whether the   *)
(* mapping returned is the object _latest_metrics refers to.               *)
get_latest_metrics(g) ==
    [value |-> g._latest_metrics, aliased |-> FALSE]

----------------------------------------------------------------------------
(* _run_load.request_func: one request task.  OAIRequester.call is taken   *)
(* here by its result; the specification ReqSpec below models it step by   *)
(* step.                                                                    *)

(* The outcomes of call() the tasks of the run end with: a streamed 200, a  *)
(* 429, an exception captured into last_exception.                         *)
CallKinds == {"ok", "http429", "error"}

(* The RequestStats call() returns: a streamed 200, a 200 whose stream     *)
(* carried no delta frame, a 200 whose stream carried a role frame only, a *)
(* 429, a 500, or an exception captured into last_exception.  The instants *)
(* of the exchange are not followed in this specification: every timestamp *)
(* call() sets is the instant 0.                                            *)
CallResult(kind) ==
    LET base == [RequestStats EXCEPT !.request_start_time = Some(0),
                                     !.response_end_time = Some(0),
                                     !.calls = 1]
    IN CASE kind = "ok" ->
              [base EXCEPT !.response_status_code = 200,
                           !.response_time = Some(0),
                           !.first_token_time = Some(0),
                           !.generated_tokens = Some(1)]
         [] kind = "empty200" ->
              [base EXCEPT !.response_status_code = 200,
                           !.response_time = Some(0)]
         [] kind = "notokens200" ->
              [base EXCEPT !.response_status_code = 200,
                           !.response_time = Some(0),
                           !.first_token_time = Some(0),
                           !.generated_tokens = Some(0)]
         [] kind = "http429" -> [base EXCEPT !.response_status_code = 429]
         [] kind = "http500" -> [base EXCEPT !.response_status_code = 500]
         [] OTHER -> [base EXCEPT !.last_exception = Some("ClientError")]

(* A task of the loop.  late and after_failure record the moment of its    *)
(* dispatch: whether the stop flag was set or the deadline had passed, and *)
(* whether an earlier request had already failed.                          *)
NoTask == [st |-> "none", late |-> FALSE, after_failure |-> FALSE]

(* asyncio's Task.done(): finished by a return, an exception or a          *)
(* cancellation.                                                            *)
TaskDone(t) == tasks[t].st \in {"done", "failed", "cancelled"}

(* A request has ended with a non-200 status or with an exception.         *)
SomeRequestFailed ==
    \/ \E t \in TaskIds : tasks[t].st = "failed"
    \/ aggregator.total_failed_count > 0
    \/ \E i \in 1..Len(aggregator.raw_stat_dicts) :
           \/ aggregator.raw_stat_dicts[i].last_exception # None
           \/ aggregator.raw_stat_dicts[i].first_token_time = None

(* The event loop runs a task only while _run is suspended at an await.    *)
RunSuspended == pc \in {"acquire", "wait", "drain", "closing"}

(* _run has begun and has not ended. *)
Running == pc \notin {"idle", "stopped"}

(* The loop's ready queue is first in, first out: the created tasks take   *)
(* their first step in the order of their creation.                        *)
FirstCreated(t) == \A u \in TaskIds : u < t => tasks[u].st # "created"

(* The task starts: request_builder.__next__(), record_new_request(), and  *)
(* the await of requester.call().                                           *)
TaskStart(t) ==
    /\ alive /\ RunSuspended
    /\ tasks[t].st = "created"
    /\ FirstCreated(t)
    /\ tasks' = [tasks EXCEPT ![t].st = "calling"]
    /\ aggregator' = record_new_request(aggregator)
    /\ UNCHANGED <<now, execVars, procVars>>
    /\ UNCHANGED <<reqVars, otherVars>>

(* request_builder.__next__() raises: the task ends with that exception    *)
(* before record_new_request().                                             *)
TaskBuilderRaises(t) ==
    /\ alive /\ RunSuspended
    /\ tasks[t].st = "created"
    /\ FirstCreated(t)
    /\ tasks' = [tasks EXCEPT ![t].st = "failed"]
    /\ UNCHANGED <<now, execVars, procVars, aggregator>>
    /\ UNCHANGED <<reqVars, otherVars>>

(* requester.call() returns: context_tokens is set and the stats are       *)
(* aggregated in the same step of the task (no await in between).          *)
TaskComplete(t, kind) ==
    /\ alive /\ RunSuspended
    /\ tasks[t].st = "calling"
    /\ LET stats == [CallResult(kind) EXCEPT !.context_tokens = MessagesTokens]
       IN aggregator' = aggregate_request(aggregator, stats)
    /\ tasks' = [tasks EXCEPT ![t].st = "done"]
    /\ UNCHANGED <<now, execVars, procVars>>
    /\ UNCHANGED <<reqVars, otherVars>>

----------------------------------------------------------------------------
(* AsyncHTTPExecuter *)

(* run(duration) starts _run: the session is opened and the locals are set. *)
RunStart ==
    /\ alive /\ pc = "idle"
    /\ pc' = "loop"
    /\ start_time' = now
    /\ calls_made' = 0
    /\ request_tasks' = {}
    /\ run_end_conditions_met' = FALSE
    /\ UNCHANGED <<now, terminate, duration, max_concurrency, drain_start,
                   finish_calls, run_error, procVars, tasks, aggregator>>
    /\ UNCHANGED <<reqVars, otherVars>>

(* Mutant: the while condition does not test self.terminate. *)
LoopEnter_IgnoresFlag ==
    /\ alive /\ pc = "loop"
    /\ ~run_end_conditions_met
    /\ calls_made < MaxCalls
    /\ pc' = "acquire"
    /\ UNCHANGED <<now, terminate, run_end_conditions_met, calls_made,
                   request_tasks, start_time, duration, max_concurrency,
                   drain_start, finish_calls, run_error, procVars, tasks,
                   aggregator>>
    /\ UNCHANGED <<reqVars, otherVars>>

(* while not run_end_conditions_met and not self.terminate: the loop goes  *)
(* on and suspends in "async with self.rate_limiter".                       *)
LoopEnter ==
    /\ alive /\ pc = "loop"
    /\ ~run_end_conditions_met /\ ~terminate
    /\ calls_made < MaxCalls
    /\ pc' = "acquire"
    /\ UNCHANGED <<now, terminate, run_end_conditions_met, calls_made,
                   request_tasks, start_time, duration, max_concurrency,
                   drain_start, finish_calls, run_error, procVars, tasks,
                   aggregator>>
    /\ UNCHANGED <<reqVars, otherVars>>

(* finish_run_func() *)
FinishRun ==
    /\ finish_calls' = finish_calls + 1
    /\ pc' = "closing"

(* The loop ends; with tracked tasks the drain wait begins, without any    *)
(* finish_run_func is called at once.                                       *)
LoopExit ==
    /\ alive /\ pc = "loop"
    /\ run_end_conditions_met \/ terminate
    /\ IF request_tasks # {}
       THEN /\ pc' = "drain"
            /\ drain_start' = now
            /\ UNCHANGED finish_calls
       ELSE /\ FinishRun
            /\ UNCHANGED drain_start
    /\ UNCHANGED <<now, terminate, run_end_conditions_met, calls_made,
                   request_tasks, start_time, duration, max_concurrency,
                   run_error, procVars, tasks, aggregator>>
    /\ UNCHANGED <<reqVars, otherVars>>

(* duration is set and (time.time() - start_time) > duration *)
DeadlinePassed == duration # None /\ (now - start_time) > duration[1]

(* Mutant: the end-of-run test never finds the deadline elapsed. *)
RunEndTest_Never == FALSE

(* The end-of-run test that follows each dispatch. *)
RunEndTest == IF duration = None THEN FALSE ELSE DeadlinePassed

(* asyncio.create_task(...), calls_made += 1 and the end-of-run test, with *)
(* `tracked` the tracked set at that moment.                                *)
Dispatch(tracked) ==
    LET v == calls_made + 1
    IN /\ tasks' = [tasks EXCEPT ![v] =
                       [st |-> "created",
                        late |-> terminate \/ DeadlinePassed,
                        after_failure |-> SomeRequestFailed]]
       /\ request_tasks' = tracked \cup {v}
       /\ calls_made' = calls_made + 1
       /\ run_end_conditions_met' = RunEndTest
       /\ pc' = "loop"

(* Mutant: the bound test is off by one. *)
OverConcurrency_OffByOne(tracked) == Cardinality(tracked) > max_concurrency + 1

(* len(request_tasks) > self.max_concurrency *)
OverConcurrency(tracked) == Cardinality(tracked) > max_concurrency

(* Mutant: the loop dispatches as soon as the rate limiter admits, without *)
(* waiting for a tracked task when it is over the bound.                    *)
AcquireReturns_NoWait ==
    /\ alive /\ pc = "acquire"
    /\ Dispatch(request_tasks)
    /\ UNCHANGED <<now, terminate, start_time, duration, max_concurrency,
                   drain_start, finish_calls, run_error, procVars, aggregator>>
    /\ UNCHANGED <<reqVars, otherVars>>

(* The rate limiter admits.  Over the bound the loop suspends in           *)
(* asyncio.wait, otherwise it dispatches.                                   *)
AcquireReturns ==
    /\ alive /\ pc = "acquire"
    /\ IF OverConcurrency(request_tasks)
       THEN /\ pc' = "wait"
            /\ UNCHANGED <<tasks, request_tasks, calls_made,
                           run_end_conditions_met>>
       ELSE Dispatch(request_tasks)
    /\ UNCHANGED <<now, terminate, start_time, duration, max_concurrency,
                   drain_start, finish_calls, run_error, procVars, aggregator>>
    /\ UNCHANGED <<reqVars, otherVars>>

(* Mutant: the loop reads the results of the done tasks, so the exception  *)
(* of a failed task leaves _run.                                           *)
WaitFirstCompleted_Raises ==
    /\ alive /\ pc = "wait"
    /\ \E t \in request_tasks : TaskDone(t)
    /\ IF \E t \in request_tasks : tasks[t].st = "failed"
       THEN /\ pc' = "stopped"
            /\ run_error' = Some("task exception")
            /\ UNCHANGED <<tasks, request_tasks, calls_made,
                           run_end_conditions_met>>
       ELSE /\ Dispatch({t \in request_tasks : ~TaskDone(t)})
            /\ UNCHANGED run_error
    /\ UNCHANGED <<now, terminate, start_time, duration, max_concurrency,
                   drain_start, finish_calls, procVars, aggregator>>
    /\ UNCHANGED <<reqVars, otherVars>>

(* asyncio.wait(request_tasks, return_when=FIRST_COMPLETED) returns once a *)
(* tracked task is done; the pending ones stay tracked.                     *)
WaitFirstCompleted ==
    /\ alive /\ pc = "wait"
    /\ \E t \in request_tasks : TaskDone(t)
    /\ Dispatch({t \in request_tasks : ~TaskDone(t)})
    /\ UNCHANGED <<now, terminate, start_time, duration, max_concurrency,
                   drain_start, finish_calls, run_error, procVars, aggregator>>
    /\ UNCHANGED <<reqVars, otherVars>>

(* Mutant: finish_run_func() is called without the drain wait. *)
DrainReturns_NoWait ==
    /\ alive /\ pc = "drain"
    /\ FinishRun
    /\ UNCHANGED <<now, terminate, run_end_conditions_met, calls_made,
                   request_tasks, start_time, duration, max_concurrency,
                   drain_start, run_error, procVars, tasks, aggregator>>
    /\ UNCHANGED <<reqVars, otherVars>>

(* asyncio.wait(request_tasks, timeout=30) returns: every tracked task is  *)
(* done or the timeout has expired.  finish_run_func() follows.             *)
DrainReturns ==
    /\ alive /\ pc = "drain"
    /\ \/ \A t \in request_tasks : TaskDone(t)
       \/ now - drain_start >= DRAIN_TIMEOUT
    /\ FinishRun
    /\ UNCHANGED <<now, terminate, run_end_conditions_met, calls_made,
                   request_tasks, start_time, duration, max_concurrency,
                   drain_start, run_error, procVars, tasks, aggregator>>
    /\ UNCHANGED <<reqVars, otherVars>>

(* The session's __aexit__ returns; restoring the signal handlers raises   *)
(* NameError (orig_sigint_handler is not defined), _run ends with it, and  *)
(* asyncio.run cancels the tasks that are not done.                         *)
SessionClose ==
    /\ alive /\ pc = "closing"
    /\ pc' = "stopped"
    /\ run_error' = Some("NameError")
    /\ tasks' = [t \in TaskIds |->
                   IF tasks[t].st \in {"created", "calling"}
                   THEN [tasks[t] EXCEPT !.st = "cancelled"]
                   ELSE tasks[t]]
    /\ UNCHANGED <<now, terminate, run_end_conditions_met, calls_made,
                   request_tasks, start_time, duration, max_concurrency,
                   drain_start, finish_calls, procVars, aggregator>>
    /\ UNCHANGED <<reqVars, otherVars>>

(* _terminate, the handler meant for SIGINT and SIGTERM *)
Terminate ==
    /\ alive /\ pc # "stopped"
    /\ IF ~terminate
       THEN /\ terminate' = TRUE
            /\ UNCHANGED alive
       ELSE /\ alive' = FALSE
            /\ UNCHANGED terminate
    /\ UNCHANGED <<now, pc, run_end_conditions_met, calls_made, request_tasks,
                   start_time, duration, max_concurrency, drain_start,
                   finish_calls, run_error, signals, tasks, aggregator>>
    /\ UNCHANGED <<reqVars, otherVars>>

(* SIGINT or SIGTERM reaches the process.  No statement of the source      *)
(* installs _terminate with signal.signal, so the signal takes the         *)
(* disposition the process had: it ends the process, or a handler of the   *)
(* embedding server absorbs it.                                             *)
Signal ==
    /\ alive /\ Running
    /\ signals < MaxSignals
    /\ signals' = signals + 1
    /\ alive' \in BOOLEAN
    /\ UNCHANGED <<now, execVars, tasks, aggregator>>
    /\ UNCHANGED <<reqVars, otherVars>>

(* Time passes while _run is suspended. *)
Tick ==
    /\ alive /\ RunSuspended
    /\ now + TimeQuantum <= MaxTime
    /\ now' = now + TimeQuantum
    /\ UNCHANGED <<runVars, reqVars, otherVars>>

----------------------------------------------------------------------------
(* OAIRequester: one call(), step by step *)

MAX_RETRY_SECONDS == 60

(* The statuses the server answers with. *)
Statuses == {200, 204, 429, 500}

(* The retry-after-ms header of a response: absent, a number of            *)
(* milliseconds, or a text float() rejects.                                *)
NoHeader == << >>
RetryAfterHeaders ==
    {NoHeader, <<"ms", TimeQuantum * 1000>>, <<"text", 0>>}

(* The exception classes of the exchange; the subclasses of                *)
(* aiohttp.ClientError are the ones the backoff decorator handles.         *)
ClientErrors ==
    {"ClientConnectionError", "ClientResponseError", "ClientPayloadError"}

(* The lines of a streamed body, by what the parser makes of them: a line  *)
(* without the data: prefix, the sentinel, a payload json.loads rejects, a *)
(* JSON payload that is not an object (null, a number, a list), an object  *)
(* without choices, a choice with an empty delta, a delta with a role, a   *)
(* delta with content, and a delta with neither.                           *)
Frames ==
    {[kind |-> k, role |-> "", content |-> << >>] :
        k \in {"nondata", "done", "malformed", "nonobject", "nochoices",
               "emptydelta", "other"}}
      \cup {[kind |-> "role", role |-> "assistant", content |-> << >>]}
      \cup {[kind |-> "content", role |-> "", content |-> <<c>>] :
              c \in {"A", "B"}}

(* The requester before call(): stats is a fresh RequestStats, response    *)
(* the last HTTP response, frames the lines read from the stream so far,   *)
(* call_exc the exception that left _call, raised the exception that left  *)
(* call().                                                                  *)
RequesterIdle ==
    [pc |-> "idle", stats |-> RequestStats,
     response |-> [status |-> 0, retry_after |-> NoHeader],
     wake_at |-> 0, backoff_start |-> 0, posts |-> 0, sleeps |-> 0,
     lines |-> 0, frames |-> << >>, call_exc |-> None, raised |-> None]

(* Mutant: the except clause catches aiohttp.ClientError only. *)
IsException_OnlyClientError(kind) == kind \in ClientErrors

(* except Exception: CancelledError derives from BaseException. *)
IsException(kind) == kind # "CancelledError"

(* Mutant: the finally clause of call() does nothing. *)
CallFinally_Nothing(stats) == stats

(* finally: if stats.response_end_time is None, set it. *)
CallFinally(stats) ==
    IF stats.response_end_time = None
    THEN [stats EXCEPT !.response_end_time = Some(now)]
    ELSE stats

(* _call has ended, by a return (exc = None) or by the exception exc:      *)
(* the except clause, the finally clause and the return of call().         *)
CallEnds(r, exc) ==
    LET caught == exc # None /\ IsException(exc[1])
        s1 == IF caught THEN [r.stats EXCEPT !.last_exception = exc]
              ELSE r.stats
    IN [r EXCEPT !.stats = CallFinally(s1),
                 !.call_exc = exc,
                 !.pc = IF exc = None \/ caught THEN "returned" ELSE "raised",
                 !.raised = IF exc = None \/ caught THEN None ELSE exc]

(* Mutant: no status is terminal. *)
_terminal_http_code_Never(e) == "False"

(* giveup: e.response.status != 429, or AttributeError when the exception  *)
(* has no attribute response.                                               *)
_terminal_http_code(e) ==
    IF e.response = None THEN "AttributeError"
    ELSE IF e.response[1] # 429 THEN "True" ELSE "False"

(* backoff.on_exception: an exception leaves the body of _call.  Only an   *)
(* aiohttp.ClientError is handled: giveup is asked, then the time budget,  *)
(* and otherwise the decorator sleeps (full jitter: any wait from 0 s) and *)
(* calls _call again.                                                       *)
OnException(r, e) ==
    IF e.kind \notin ClientErrors THEN CallEnds(r, Some(e.kind))
    ELSE LET g == _terminal_http_code(e)
         IN IF g = "AttributeError" THEN CallEnds(r, Some("AttributeError"))
            ELSE IF g = "True" \/ now - r.backoff_start >= MAX_RETRY_SECONDS
                 THEN CallEnds(r, Some(e.kind))
                 ELSE [r EXCEPT !.pc = "backoff_sleep", !.wake_at = now,
                                !.sleeps = @ + 1]

(* response.raise_for_status() *)
ClientResponseError(status) ==
    [kind |-> "ClientResponseError",
     response |-> IF exposes_response THEN Some(status) ELSE None]

(* Lines 139-146: what follows the attempt loop. *)
AfterLoop(r) ==
    LET status == r.response.status
        r1 == IF status # 200
              THEN [r EXCEPT !.stats.response_end_time = Some(now)]
              ELSE r
    IN IF backoff /\ status >= 400
       THEN OnException(r1, ClientResponseError(status))
       ELSE IF status = 200
            THEN [r1 EXCEPT !.stats.response_time = Some(now),
                            !.pc = "stream", !.lines = 0,
                            !.frames = << >>]
            ELSE CallEnds(r1, None)

(* Mutant: stats.calls is set to one instead of being incremented. *)
AttemptLoop_CountOnce(r) ==
    IF r.stats.calls = 0
         \/ now - r.stats.request_start_time[1] < MAX_RETRY_SECONDS
    THEN [r EXCEPT !.stats.calls = 1, !.posts = @ + 1, !.pc = "post"]
    ELSE AfterLoop(r)

(* Mutant: the attempt loop has no time budget. *)
AttemptLoop_NoBudget(r) ==
    [r EXCEPT !.stats.calls = @ + 1, !.posts = @ + 1, !.pc = "post"]

(* while stats.calls == 0 or time.time() - request_start_time < 60:        *)
(* the next attempt is posted, or the loop ends.                            *)
AttemptLoop(r) ==
    IF r.stats.calls = 0
         \/ now - r.stats.request_start_time[1] < MAX_RETRY_SECONDS
    THEN [r EXCEPT !.stats.calls = @ + 1, !.posts = @ + 1, !.pc = "post"]
    ELSE AfterLoop(r)

(* _call begins: stats.request_start_time = time.time() *)
EnterCall(r) ==
    AttemptLoop([r EXCEPT !.stats.request_start_time = Some(now)])

(* Mutant: the retry-after header is honoured whatever self.backoff is. *)
HonorRetryAfter_Always(hdr) == hdr # NoHeader

(* self.backoff and RETRY_AFTER_MS_HEADER in response.headers *)
HonorRetryAfter(hdr) == backoff /\ hdr # NoHeader

(* Mutant: the retry-after sleep does not wait for the hint. *)
OnResponse_NoWait(r, status, hdr) ==
    LET r1 == [r EXCEPT !.stats.response_status_code = status,
                        !.response = [status |-> status, retry_after |-> hdr]]
    IN IF status # 429 THEN AfterLoop(r1)
       ELSE IF HonorRetryAfter(hdr) /\ hdr[1] = "ms"
            THEN [r1 EXCEPT !.pc = "retry_sleep", !.wake_at = now,
                            !.sleeps = @ + 1]
            ELSE AfterLoop(r1)

(* Lines 122-137: the response of an attempt. *)
OnResponse(r, status, hdr) ==
    LET r1 == [r EXCEPT !.stats.response_status_code = status,
                        !.response = [status |-> status, retry_after |-> hdr]]
    IN IF status # 429 THEN AfterLoop(r1)
       ELSE IF HonorRetryAfter(hdr) /\ hdr[1] = "ms"
            THEN [r1 EXCEPT !.pc = "retry_sleep",
                            !.wake_at = now + (hdr[2] \div 1000),
                            !.sleeps = @ + 1]
            ELSE AfterLoop(r1)

(* Mutant: a content frame replaces the text of the current entry. *)
HandleLine_Overwrite(stats, f) ==
    IF f.kind = "done" THEN [stats |-> stats, out |-> "break"]
    ELSE IF f.kind \in {"nondata", "malformed", "nochoices", "emptydelta"}
    THEN [stats |-> stats, out |-> "continue"]
    ELSE IF f.kind = "nonobject"    \* msg.get: no such attribute
    THEN [stats |-> stats, out |-> "AttributeError"]
    ELSE
      LET s1 == IF stats.first_token_time = None
                THEN [stats EXCEPT !.first_token_time = Some(now)]
                ELSE stats
          s2 == IF s1.generated_tokens = None
                THEN [s1 EXCEPT !.generated_tokens = Some(0)]
                ELSE s1
          n == Len(s2.output_content)
      IN IF f.kind = "role"
         THEN [stats |-> [s2 EXCEPT !.output_content =
                            Append(@, [role |-> f.role, content |-> << >>])],
               out |-> "continue"]
         ELSE IF n = 0
              THEN [stats |-> s2, out |-> "IndexError"]
              ELSE [stats |-> [s2 EXCEPT
                                 !.output_content[n].content = f.content,
                                 !.generated_tokens = Some(@[1] + 1)],
                    out |-> "continue"]

(* The body of the async for over the lines of the stream, for one line:   *)
(* the stats after it and how it ends (continue, break, or IndexError).    *)
HandleLine(stats, f) ==
    IF f.kind = "done" THEN [stats |-> stats, out |-> "break"]
    ELSE IF f.kind \in {"nondata", "malformed", "nochoices", "emptydelta"}
    THEN [stats |-> stats, out |-> "continue"]
    ELSE IF f.kind = "nonobject"    \* msg.get: no such attribute
    THEN [stats |-> stats, out |-> "AttributeError"]
    ELSE
      LET s1 == IF stats.first_token_time = None
                THEN [stats EXCEPT !.first_token_time = Some(now)]
                ELSE stats
          s2 == IF s1.generated_tokens = None
                THEN [s1 EXCEPT !.generated_tokens = Some(0)]
                ELSE s1
          n == Len(s2.output_content)
      IN IF f.kind = "role"
         THEN [stats |-> [s2 EXCEPT !.output_content =
                            Append(@, [role |-> f.role, content |-> << >>])],
               out |-> "continue"]
         ELSE IF n = 0
              THEN [stats |-> s2, out |-> "IndexError"]
              ELSE [stats |-> [s2 EXCEPT
                                 !.output_content[n].content = @ \o f.content,
                                 !.generated_tokens = Some(@[1] + 1)],
                    out |-> "continue"]

(* Mutant: the finally clause takes the time the response arrived. *)
StreamFinally_AtResponse(r) ==
    [r EXCEPT !.stats.response_end_time = r.stats.response_time]

(* finally: stats.response_end_time = time.time() *)
StreamFinally(r) == [r EXCEPT !.stats.response_end_time = Some(now)]

----------------------------------------------------------------------------
(* _RequestBuilder and the body OAIRequester.call() posts *)

(* The generation parameters of the builder, each None or set. *)
BuilderParams ==
    {"max_tokens", "completions", "frequency_penalty", "presence_penalty",
     "temperature", "top_p", "model"}

(* The messages generate_messages() returns. *)
Messages == <<"message">>

(* The key under which __next__ stores a parameter that is set. *)
BodyKey(param) ==
    CASE param = "completions" -> "n"
      [] param = "presence_penalty" -> "presenece_penalty"
      [] OTHER -> param

(* _RequestBuilder.__next__: the body, a mapping from its keys. *)
__next__(rb) ==
    LET set == {param \in BuilderParams : rb[param] # None}
        keys == {"messages"} \cup {BodyKey(param) : param \in set}
    IN [k \in keys |->
          IF k = "messages" THEN Messages
          ELSE rb[CHOOSE param \in set : BodyKey(param) = k][1]]

(* call(): body["stream"] = True *)
ForceStream(body) ==
    [k \in DOMAIN body \cup {"stream"} |->
       IF k = "stream" THEN TRUE ELSE body[k]]

----------------------------------------------------------------------------
(* api: POST /benchmark.  A job is the BenchmarkJob object together with   *)
(* the call of run() that the default executor makes for it in a thread of *)
(* its own: thread is "scheduled" until run() has marked the job running,  *)
(* "loading" while load(req) is executing, "ended" when run() is over.     *)

(* The jobs created so far, in the order of their creation. *)
JobIds == 1..Len(jobs)

BenchmarkStatus == {"queued", "running", "completed", "failed"}

(* The durations a request asks for: one that _validate accepts and one it *)
(* refuses.                                                                 *)
RequestDurations == {Some(MIN_DURATION), Some(MIN_DURATION - 1)}

(* _validate(args) returns; otherwise it raises ValueError. *)
_validate(req) == ~(req.duration # None /\ req.duration[1] < MIN_DURATION)

(* BenchmarkJob(id, request, status=queued, created_at), and run() handed  *)
(* to the executor.                                                         *)
BenchmarkJob(req, t) ==
    [status |-> "queued", request |-> req,
     created_at |-> Some(t), started_at |-> None, completed_at |-> None,
     result |-> None, error |-> None, thread |-> "scheduled"]

(* No request has been posted. *)
ApiIdle ==
    /\ jobs = << >>
    /\ current_job = None

(* The ways load(req) ends in the thread of run().  An invalid request     *)
(* makes load call sys.exit(1), which raises SystemExit.  A valid one ends *)
(* with an exception: of the set-up, or the NameError that ends every      *)
(* _run; asyncio.run re-raises it, so load does not return a result.       *)
LoadOutcomes(req) == IF _validate(req) THEN {"raised"} ELSE {"exited"}

(* run(), from the end of load(req): the result is stored, an Exception is *)
(* caught and stored; SystemExit is not an Exception and leaves run().     *)
AfterLoad(job, outcome, t) ==
    CASE outcome = "returned" ->
           [job EXCEPT !.status = "completed", !.completed_at = Some(t),
                       !.result = Some("result"), !.thread = "ended"]
      [] outcome = "raised" ->
           [job EXCEPT !.status = "failed", !.completed_at = Some(t),
                       !.error = Some("exception"), !.thread = "ended"]
      [] OTHER -> [job EXCEPT !.thread = "ended"]

(* start_benchmark, the body of "with todo_lock": the current job, if      *)
(* queued or running, is marked failed.                                     *)
CancelPrevious(js, cur, t) ==
    IF cur # None /\ js[cur[1]].status \in {"queued", "running"}
    THEN [js EXCEPT ![cur[1]] =
            [@ EXCEPT !.status = "failed", !.completed_at = Some(t),
                      !.error = Some("Canceled by new benchmark request")]]
    ELSE js

(* No body has been built. *)
NothingPosted == [body |-> None, sent |-> FALSE]

(* The variables of the aggregator thread and of the builder where they    *)
(* are not followed.                                                        *)
OtherIdle ==
    /\ agg = NewAggregator(1, TRUE)
    /\ request_builder = [param \in BuilderParams |-> None]
    /\ posted = NothingPosted
    /\ ApiIdle

----------------------------------------------------------------------------

ExecInit ==
    /\ now = 0
    /\ alive = TRUE
    /\ signals = 0
    /\ pc = "idle"
    /\ terminate = FALSE
    /\ run_end_conditions_met = FALSE
    /\ calls_made = 0
    /\ request_tasks = {}
    /\ start_time = 0
    /\ duration \in {None, Some(MIN_DURATION)}
    /\ max_concurrency \in 1..MaxClients
    /\ drain_start = 0
    /\ finish_calls = 0
    /\ run_error = None
    /\ tasks = [t \in TaskIds |-> NoTask]
    /\ aggregator = StatsAggregatorInit

Init ==
    /\ ExecInit
    /\ rq = RequesterIdle
    /\ backoff = FALSE
    /\ exposes_response = FALSE
    /\ OtherIdle

Next ==
    \/ RunStart
    \/ LoopEnter
    \/ LoopExit
    \/ AcquireReturns
    \/ WaitFirstCompleted
    \/ DrainReturns
    \/ SessionClose
    \/ Terminate
    \/ Signal
    \/ Tick
    \/ \E t \in TaskIds : TaskStart(t)
    \/ \E t \in TaskIds : TaskBuilderRaises(t)
    \/ \E t \in TaskIds, kind \in CallKinds : TaskComplete(t, kind)

Spec == Init /\ [][Next]_vars

(* The run under its scheduling.  run() is called; the event loop resumes  *)
(* _run whenever the await it is suspended in can return, and gives every  *)
(* created task its first step; the rate limiter always eventually admits; *)
(* time passes.  Nothing makes a request end: the server may never answer. *)
HangFairness ==
    /\ WF_vars(RunStart)
    /\ WF_vars(LoopEnter) /\ WF_vars(LoopExit)
    /\ WF_vars(AcquireReturns) /\ WF_vars(WaitFirstCompleted)
    /\ WF_vars(DrainReturns) /\ WF_vars(SessionClose)
    /\ WF_vars(Tick)
    /\ WF_vars(\E t \in TaskIds : TaskStart(t))

HangSpec == Spec /\ HangFairness

----------------------------------------------------------------------------
(* The executer whose run() is called again after a run has ended.  run()  *)
(* tests nothing: it starts _run, which opens a new session and sets its   *)
(* locals anew; self.terminate is as the last run left it.  The tasks of   *)
(* the ended run are done or cancelled, and those of the new run take      *)
(* their places.                                                            *)
RunAgain ==
    /\ alive /\ pc = "stopped"
    /\ finish_calls < MaxRuns
    /\ pc' = "loop"
    /\ start_time' = now
    /\ calls_made' = 0
    /\ request_tasks' = {}
    /\ run_end_conditions_met' = FALSE
    /\ run_error' = None
    /\ UNCHANGED <<now, terminate, duration, max_concurrency, drain_start,
                   finish_calls, procVars, tasks, aggregator>>
    /\ UNCHANGED <<reqVars, otherVars>>

RerunNext ==
    \/ Next
    \/ RunAgain

RerunSpec == Init /\ [][RerunNext]_vars

----------------------------------------------------------------------------
(* The steps of one call() *)

(* The coroutine is suspended at an await. *)
ReqSuspended == rq.pc \in {"post", "retry_sleep", "backoff_sleep", "stream"}

(* call(session, body) begins: the decorator notes its start time, _call   *)
(* sets request_start_time and posts the first attempt.                    *)
CallStart ==
    /\ rq.pc = "idle"
    /\ rq' = EnterCall([rq EXCEPT !.backoff_start = now])
    /\ UNCHANGED <<now, runVars, backoff, exposes_response, otherVars>>

(* session.post returns a response. *)
PostResponds(status, hdr) ==
    /\ rq.pc = "post"
    /\ rq' = OnResponse(rq, status, hdr)
    /\ UNCHANGED <<now, runVars, backoff, exposes_response, otherVars>>

(* session.post raises: a connection error, or the timeout of the session. *)
PostRaises(kind) ==
    /\ rq.pc = "post"
    /\ rq' = OnException(rq, [kind |-> kind, response |-> None])
    /\ UNCHANGED <<now, runVars, backoff, exposes_response, otherVars>>

(* asyncio.sleep(retry_after_ms/1000.0) returns; the while test follows. *)
RetrySleepWake ==
    /\ rq.pc = "retry_sleep"
    /\ now >= rq.wake_at
    /\ AttemptLoop(rq).posts <= MaxPosts
    /\ rq' = AttemptLoop(rq)
    /\ UNCHANGED <<now, runVars, backoff, exposes_response, otherVars>>

(* The sleep of the backoff decorator returns; _call is called again. *)
BackoffWake ==
    /\ rq.pc = "backoff_sleep"
    /\ now >= rq.wake_at
    /\ EnterCall(rq).posts <= MaxPosts
    /\ rq' = EnterCall(rq)
    /\ UNCHANGED <<now, runVars, backoff, exposes_response, otherVars>>

(* One iteration of the async for: the line is handled, and the loop goes *)
(* on, ends at the sentinel, or is left by an exception.                   *)
StreamStep(r, f) ==
    LET h == HandleLine(r.stats, f)
        r1 == [r EXCEPT !.stats = h.stats, !.lines = @ + 1,
                        !.frames = Append(@, f)]
    IN CASE h.out = "continue" -> r1
         [] h.out = "break" -> CallEnds(StreamFinally(r1), None)
         [] OTHER -> OnException(StreamFinally(r1),
                                 [kind |-> h.out, response |-> None])

(* The stream yields a line. *)
StreamLine(f) ==
    /\ rq.pc = "stream"
    /\ f.kind = "done" \/ rq.lines < MaxLines
    /\ rq' = StreamStep(rq, f)
    /\ UNCHANGED <<now, runVars, backoff, exposes_response, otherVars>>

(* The stream ends without the sentinel. *)
StreamEnds ==
    /\ rq.pc = "stream"
    /\ rq' = CallEnds(StreamFinally(rq), None)
    /\ UNCHANGED <<now, runVars, backoff, exposes_response, otherVars>>

(* Reading the stream raises ClientPayloadError. *)
StreamRaises ==
    /\ rq.pc = "stream"
    /\ rq' = OnException(StreamFinally(rq),
                         [kind |-> "ClientPayloadError", response |-> None])
    /\ UNCHANGED <<now, runVars, backoff, exposes_response, otherVars>>

(* The task that runs call() is cancelled: CancelledError is raised at the *)
(* await where the coroutine is suspended.                                  *)
Cancel ==
    /\ ReqSuspended
    /\ LET r1 == IF rq.pc = "stream" THEN StreamFinally(rq) ELSE rq
       IN rq' = OnException(r1, [kind |-> "CancelledError",
                                 response |-> None])
    /\ UNCHANGED <<now, runVars, backoff, exposes_response, otherVars>>

(* Time passes while the coroutine is suspended. *)
ReqTick ==
    /\ ReqSuspended
    /\ now + TimeQuantum <= MaxTime
    /\ now' = now + TimeQuantum
    /\ UNCHANGED <<runVars, reqVars, otherVars>>

ReqInit ==
    /\ ExecInit
    /\ duration = None
    /\ max_concurrency = 1
    /\ rq = RequesterIdle
    /\ backoff \in BOOLEAN
    /\ exposes_response \in BOOLEAN
    /\ OtherIdle

ReqNext ==
    \/ CallStart
    \/ \E status \in Statuses, hdr \in RetryAfterHeaders :
          PostResponds(status, hdr)
    \/ \E kind \in {"ClientConnectionError", "TimeoutError"} : PostRaises(kind)
    \/ RetrySleepWake
    \/ BackoffWake
    \/ \E f \in Frames : StreamLine(f)
    \/ StreamEnds
    \/ StreamRaises
    \/ Cancel
    \/ ReqTick

ReqSpec == ReqInit /\ [][ReqNext]_vars

(* The steps of the exchange other than the cancellation of the task. *)
ReqProgress ==
    \/ CallStart
    \/ \E status \in Statuses, hdr \in RetryAfterHeaders :
          PostResponds(status, hdr)
    \/ \E kind \in {"ClientConnectionError", "TimeoutError"} : PostRaises(kind)
    \/ RetrySleepWake
    \/ BackoffWake
    \/ \E f \in Frames : StreamLine(f)
    \/ StreamEnds
    \/ StreamRaises
    \/ ReqTick

(* The exchange goes on: a posted attempt is answered or fails (the        *)
(* session's timeout ends it at the latest), a sleep ends, the stream      *)
(* yields or ends, and time passes.                                         *)
ReqFairSpec == ReqSpec /\ WF_vars(ReqProgress)

----------------------------------------------------------------------------
(* The parse of one streamed body: _handle_response from its first line,   *)
(* the lines drawn from Frames.                                             *)

(* The stream yields a line (streams of up to MaxFrames lines). *)
ParseLine(f) ==
    /\ rq.pc = "stream"
    /\ f.kind = "done" \/ rq.lines < MaxFrames
    /\ rq' = StreamStep(rq, f)
    /\ UNCHANGED <<now, runVars, backoff, exposes_response, otherVars>>

(* The first attempt of a call has just been answered with 200. *)
StreamInit ==
    /\ ExecInit
    /\ duration = None
    /\ max_concurrency = 1
    /\ backoff \in BOOLEAN
    /\ exposes_response = FALSE
    /\ OtherIdle
    /\ rq = OnResponse(EnterCall(RequesterIdle), 200, NoHeader)

StreamNext ==
    \/ \E f \in Frames : ParseLine(f)
    \/ StreamEnds
    \/ StreamRaises
    \/ Cancel
    \/ ReqTick

StreamSpec == StreamInit /\ [][StreamNext]_vars

----------------------------------------------------------------------------
(* The aggregator alone: requests are recorded and aggregated as           *)
(* request_func does, the stats drawn from the results of call().          *)

AggKinds ==
    {"ok", "empty200", "notokens200", "http429", "http500", "error"}

(* request_func: aggregator.record_new_request() *)
AggRecord ==
    /\ aggregator.processing_requests_count + aggregator.total_requests_count
          < MaxRecords
    /\ aggregator' = record_new_request(aggregator)
    /\ UNCHANGED <<now, execVars, procVars, tasks, reqVars, otherVars>>

(* request_func: aggregator.aggregate_request(stats) for a request that    *)
(* was recorded.                                                            *)
AggAggregate(kind) ==
    /\ aggregator.processing_requests_count > 0
    /\ LET stats == [CallResult(kind) EXCEPT !.context_tokens = MessagesTokens]
       IN aggregator' = aggregate_request(aggregator, stats)
    /\ UNCHANGED <<now, execVars, procVars, tasks, reqVars, otherVars>>

AggInit ==
    /\ ExecInit
    /\ duration = None
    /\ max_concurrency = 1
    /\ rq = RequesterIdle
    /\ backoff = FALSE
    /\ exposes_response = FALSE
    /\ OtherIdle

AggNext ==
    \/ AggRecord
    \/ \E kind \in AggKinds : AggAggregate(kind)

AggSpec == AggInit /\ [][AggNext]_vars

----------------------------------------------------------------------------
(* The aggregator thread: _run_load starts it, request tasks record and    *)
(* aggregate, the thread dumps and slides the windows every dump_duration, *)
(* stop() ends it, and a reader (the metrics provider) asks for the latest *)
(* metrics.  Each body under "with self.lock" is one step.                 *)

TickKinds == {"ok", "http429"}

(* The instants of the clock up to now. *)
Instants == {t \in 0..now : t % TimeQuantum = 0}

(* The RequestStats of a call that began at start and ended at end. *)
TimedResult(kind, start, end) ==
    [CallResult(kind) EXCEPT
       !.request_start_time = Some(start),
       !.response_time = IF @ = None THEN None ELSE Some(end),
       !.first_token_time = IF @ = None THEN None ELSE Some(end),
       !.response_end_time = Some(end),
       !.context_tokens = MessagesTokens]

(* The attributes after a _dump that ended as d: the assignment binds a    *)
(* new dict, so a mapping returned before is no longer the one             *)
(* _latest_metrics refers to.                                               *)
Dumped(g, d) ==
    [g EXCEPT
       !._latest_metrics = d._latest_metrics,
       !.ret = IF @ = None \/ d.exc = Some("ZeroDivisionError")
               THEN @
               ELSE Some([@[1] EXCEPT !.aliased = FALSE])]

(* What a caller makes of a mapping it was returned. *)
Mutated == Some([mutated |-> TRUE])

(* request_func: aggregator.record_new_request() *)
TkRecord ==
    /\ aggregator.processing_requests_count + aggregator.total_requests_count
          < MaxSamples
    /\ aggregator' = record_new_request(aggregator)
    /\ UNCHANGED <<now, execVars, procVars, tasks, reqVars, otherVars>>

(* request_func: aggregator.aggregate_request(stats), for a call that      *)
(* began at start and ends now.                                             *)
TkAggregate(start, kind) ==
    /\ aggregator.processing_requests_count > 0
    /\ aggregator' =
          aggregate_request(aggregator, TimedResult(kind, start, now))
    /\ UNCHANGED <<now, execVars, procVars, tasks, reqVars, otherVars>>

(* _run_load: aggregator.start() *)
TkStart ==
    /\ agg.pc = "created"
    /\ agg' = [agg EXCEPT !.pc = "started"]
    /\ UNCHANGED <<now, runVars, reqVars, request_builder, posted, apiVars>>

(* run(): start_time and terminate are set, the first wait begins. *)
TkRunBegin ==
    /\ agg.pc = "started"
    /\ agg' = [agg EXCEPT !.start_time = now,
                          !.terminate = Some(FALSE),
                          !.wait_start = now,
                          !.pc = "waiting"]
    /\ UNCHANGED <<now, runVars, reqVars, request_builder, posted, apiVars>>

(* terminate.wait(dump_duration) times out and _dump() runs; an exception  *)
(* of _dump ends the thread.                                                *)
TkDump ==
    /\ agg.pc = "waiting"
    /\ agg.terminate = Some(FALSE)
    /\ now - agg.wait_start >= agg.dump_duration
    /\ LET d == _dump(aggregator, agg, now)
       IN agg' = [Dumped(agg, d) EXCEPT
                    !.pc = IF d.exc = None THEN "dumped" ELSE "crashed",
                    !.error = d.exc]
    /\ UNCHANGED <<now, runVars, reqVars, request_builder, posted, apiVars>>

(* _slide_window(), and the next wait begins *)
TkSlide ==
    /\ agg.pc = "dumped"
    /\ aggregator' = _slide_window(aggregator, agg.window_duration, now)
    /\ agg' = [agg EXCEPT !.pc = "waiting", !.wait_start = now]
    /\ UNCHANGED <<now, execVars, procVars, tasks, reqVars, request_builder,
                   posted, apiVars>>

(* terminate.wait returns True: the loop of run() ends. *)
TkExit ==
    /\ agg.pc = "waiting"
    /\ agg.terminate = Some(TRUE)
    /\ agg' = [agg EXCEPT !.pc = "exited"]
    /\ UNCHANGED <<now, runVars, reqVars, request_builder, posted, apiVars>>

(* stop(): self.terminate.set().  Before run() has set the attribute the   *)
(* statement raises AttributeError.                                         *)
TkStopSet ==
    /\ agg.pc # "created"
    /\ agg.stop = "no"
    /\ IF agg.terminate = None
       THEN agg' = [agg EXCEPT !.stop = "raised",
                               !.stop_error = Some("AttributeError")]
       ELSE agg' = [agg EXCEPT
                      !.terminate = Some(TRUE),
                      !.stop = "set",
                      !.at_stop =
                          Some([completed |-> aggregator.total_requests_count,
                                failed |-> aggregator.total_failed_count,
                                throttled |-> aggregator.throttled_count])]
    /\ UNCHANGED <<now, runVars, reqVars, request_builder, posted, apiVars>>

(* Mutant: stop() returns without the last _dump(). *)
TkStopDump_NoDump ==
    /\ agg.stop = "set"
    /\ agg' = [agg EXCEPT !.stop = "returned"]
    /\ UNCHANGED <<now, runVars, reqVars, request_builder, posted, apiVars>>

(* stop(): self._dump(), whose exception leaves stop(). *)
TkStopDump ==
    /\ agg.stop = "set"
    /\ LET d == _dump(aggregator, agg, now)
       IN agg' = [Dumped(agg, d) EXCEPT
                    !.stop = IF d.exc = None THEN "returned" ELSE "raised",
                    !.stop_error = d.exc]
    /\ UNCHANGED <<now, runVars, reqVars, request_builder, posted, apiVars>>

(* A reader calls get_latest_metrics(). *)
TkGet ==
    /\ agg' = [agg EXCEPT !.ret = Some(get_latest_metrics(agg))]
    /\ agg' # agg
    /\ UNCHANGED <<now, runVars, reqVars, request_builder, posted, apiVars>>

(* The reader changes the mapping it was returned. *)
TkMutate ==
    /\ agg.ret # None
    /\ agg.ret[1].value # Mutated
    /\ agg' = [agg EXCEPT
                 !.ret = Some([@[1] EXCEPT !.value = Mutated]),
                 !._latest_metrics =
                     IF agg.ret[1].aliased THEN Mutated ELSE @]
    /\ UNCHANGED <<now, runVars, reqVars, request_builder, posted, apiVars>>

(* Time passes. *)
TkTick ==
    /\ now + TimeQuantum <= MaxRunSeconds
    /\ now' = now + TimeQuantum
    /\ UNCHANGED <<runVars, reqVars, otherVars>>

TickInit ==
    /\ ExecInit
    /\ duration = None
    /\ max_concurrency = 1
    /\ rq = RequesterIdle
    /\ backoff = FALSE
    /\ exposes_response = FALSE
    /\ agg \in {NewAggregator(max_concurrency, j) : j \in BOOLEAN}
    /\ request_builder = [param \in BuilderParams |-> None]
    /\ posted = NothingPosted
    /\ ApiIdle

TickNext ==
    \/ TkRecord
    \/ \E start \in Instants, kind \in TickKinds : TkAggregate(start, kind)
    \/ TkStart
    \/ TkRunBegin
    \/ TkDump
    \/ TkSlide
    \/ TkExit
    \/ TkStopSet
    \/ TkStopDump
    \/ TkTick

TickSpec == TickInit /\ [][TickNext]_vars

(* The same thread with stop(), for requests that end at the instant they  *)
(* began.                                                                   *)
StopNext ==
    \/ TkRecord
    \/ \E kind \in TickKinds : TkAggregate(now, kind)
    \/ TkStart
    \/ TkRunBegin
    \/ TkDump
    \/ TkSlide
    \/ TkExit
    \/ TkStopSet
    \/ TkStopDump
    \/ TkTick

StopSpec == TickInit /\ [][StopNext]_vars

(* The thread and a reader of the latest metrics. *)
ReaderNext ==
    \/ TkRecord
    \/ \E kind \in TickKinds : TkAggregate(now, kind)
    \/ TkStart
    \/ TkRunBegin
    \/ TkDump
    \/ TkSlide
    \/ TkGet
    \/ TkMutate
    \/ TkTick

ReaderSpec == TickInit /\ [][ReaderNext]_vars

----------------------------------------------------------------------------
(* The lock.  Each method is followed in three steps: the thread enters    *)
(* "with self.lock", runs the first and then the second part of the body,  *)
(* and leaves the with statement, which releases the lock.                 *)

(* The methods each thread calls: the event loop's thread runs the request *)
(* tasks, the aggregator's own thread the loop of run(), the thread of     *)
(* _run_load calls stop(), the metrics provider get_latest_metrics().      *)
Ops(t) ==
    CASE t = "task" -> {"record_new_request", "aggregate_request"}
      [] t = "ticker" -> {"_dump", "_slide_window"}
      [] t = "stopper" -> {"_dump"}
      [] OTHER -> {"get_latest_metrics"}

(* Mutant: aggregate_request runs without the lock. *)
UsesLock_NotAggregate(op) == op # "aggregate_request"

(* The body of the method is under "with self.lock". *)
UsesLock(op) ==
    op \in {"record_new_request", "aggregate_request", "_dump",
            "_slide_window", "get_latest_metrics"}

(* The thread calls the method and enters its with statement. *)
LkEnter(t, op, kind) ==
    /\ agg.th[t].at = "idle"
    /\ op \in Ops(t)
    /\ UsesLock(op) => agg.lock = None
    /\ op = "record_new_request" =>
          aggregator.processing_requests_count
             + aggregator.total_requests_count < MaxLocked
    /\ op = "aggregate_request" => aggregator.processing_requests_count > 0
    /\ op # "aggregate_request" => kind = "ok"
    /\ agg' = [agg EXCEPT
                 !.lock = IF UsesLock(op) THEN Some(t) ELSE @,
                 !.th[t] = [at |-> "in", op |-> op, kind |-> kind,
                            local |-> None]]
    /\ UNCHANGED <<now, runVars, reqVars, request_builder, posted, apiVars>>

(* The first part of the body: line 123 of record_new_request, line 132   *)
(* of aggregate_request, lines 175-212 of _dump (processing_requests_count *)
(* is read), the trims of _slide_window, the copy of get_latest_metrics.   *)
LkFirst(t) ==
    LET me == agg.th[t]
    IN /\ me.at = "in"
       /\ aggregator' =
            CASE me.op = "record_new_request" ->
                   record_new_request(aggregator)
              [] me.op = "aggregate_request" ->
                   [aggregator EXCEPT !.processing_requests_count = @ - 1]
              [] me.op = "_slide_window" ->
                   _slide_window(aggregator, agg.window_duration, now)
              [] OTHER -> aggregator
       /\ agg' = [agg EXCEPT
                    !.th[t].at = "half",
                    !.th[t].local =
                        CASE me.op = "_dump" ->
                               Some(aggregator.processing_requests_count)
                          [] me.op = "get_latest_metrics" ->
                               Some(get_latest_metrics(agg))
                          [] OTHER -> None]
       /\ UNCHANGED <<now, execVars, procVars, tasks, reqVars,
                      request_builder, posted, apiVars>>

(* The second part of the body and the end of the with statement: lines    *)
(* 133-171 of aggregate_request, lines 214-241 of _dump (the counters are  *)
(* read and the mapping is assigned), the return of get_latest_metrics.    *)
LkSecond(t) ==
    LET me == agg.th[t]
        stats == [CallResult(me.kind) EXCEPT !.context_tokens = MessagesTokens]
        seen == [aggregator EXCEPT !.processing_requests_count = me.local[1]]
        left == [agg EXCEPT
                   !.lock = IF UsesLock(me.op) THEN None ELSE @,
                   !.th[t] = ThreadIdle]
    IN /\ me.at = "half"
       /\ aggregator' =
            IF me.op = "aggregate_request"
            THEN [aggregate_request(aggregator, stats) EXCEPT
                    !.processing_requests_count =
                        aggregator.processing_requests_count]
            ELSE aggregator
       /\ agg' = CASE me.op = "_dump" ->
                        Dumped(left, _dump(seen, agg, now))
                   [] me.op = "get_latest_metrics" ->
                        [left EXCEPT !.ret = Some(me.local[1])]
                   [] OTHER -> left
       /\ UNCHANGED <<now, execVars, procVars, tasks, reqVars,
                      request_builder, posted, apiVars>>

(* run() has begun one dump_duration ago; the output format is jsonl. *)
LockInit ==
    /\ ExecInit
    /\ duration = None
    /\ max_concurrency = 1
    /\ rq = RequesterIdle
    /\ backoff = FALSE
    /\ exposes_response = FALSE
    /\ agg = [NewAggregator(MaxLocked, TRUE) EXCEPT
                !.start_time = 0 - DUMP_DURATION,
                !.terminate = Some(FALSE),
                !.pc = "waiting"]
    /\ request_builder = [param \in BuilderParams |-> None]
    /\ posted = NothingPosted
    /\ ApiIdle

LockNext ==
    \/ \E t \in Threads : \E op \in Ops(t), kind \in TickKinds :
          LkEnter(t, op, kind)
    \/ \E t \in Threads : LkFirst(t)
    \/ \E t \in Threads : LkSecond(t)

LockSpec == LockInit /\ [][LockNext]_vars

----------------------------------------------------------------------------
(* Two aggregators in one process.  The sample windows and raw_stat_dicts  *)
(* are objects created once, in the class body, and no method rebinds      *)
(* them: every instance reaches the same objects through the class.  The   *)
(* counters are numbers of the class until "self.x += 1" or "-= 1" gives   *)
(* the instance an attribute of its own.  The variable aggregator holds    *)
(* the first instance with the objects of the class; agg.second holds the  *)
(* counters the second instance owns.                                       *)

Counters ==
    {"processing_requests_count", "total_requests_count",
     "total_failed_count", "throttled_count"}

(* The counters of an instance that has not changed them: the class's. *)
ClassCounters == [c \in Counters |-> StatsAggregatorInit[c]]

(* The attributes the second instance sees: its counters, and the windows  *)
(* and raw records of the class.                                            *)
SecondView ==
    [f \in DOMAIN aggregator |->
       IF f \in Counters THEN agg.second[1][f] ELSE aggregator[f]]

(* The state after a method has taken the second instance's view to v. *)
SecondUpdate(v) ==
    /\ aggregator' = [f \in DOMAIN aggregator |->
                        IF f \in Counters THEN aggregator[f] ELSE v[f]]
    /\ agg' = [agg EXCEPT !.second = Some([c \in Counters |-> v[c]])]

(* _run_load: _StatsAggregator(...) is constructed for another run. *)
InstCreate ==
    /\ agg.second = None
    /\ agg' = [agg EXCEPT !.second = Some(ClassCounters)]
    /\ UNCHANGED <<now, runVars, reqVars, request_builder, posted, apiVars>>

(* record_new_request() of the second instance *)
InstRecord ==
    /\ agg.second # None
    /\ agg.second[1].processing_requests_count
          + agg.second[1].total_requests_count < MaxRecords
    /\ SecondUpdate(record_new_request(SecondView))
    /\ UNCHANGED <<now, execVars, procVars, tasks, reqVars, request_builder,
                   posted, apiVars>>

(* aggregate_request(stats) of the second instance *)
InstAggregate(kind) ==
    /\ agg.second # None
    /\ agg.second[1].processing_requests_count > 0
    /\ LET stats == [CallResult(kind) EXCEPT !.context_tokens = MessagesTokens]
       IN SecondUpdate(aggregate_request(SecondView, stats))
    /\ UNCHANGED <<now, execVars, procVars, tasks, reqVars, request_builder,
                   posted, apiVars>>

InstNext ==
    \/ AggRecord
    \/ \E kind \in TickKinds : AggAggregate(kind)
    \/ InstCreate
    \/ InstRecord
    \/ \E kind \in TickKinds : InstAggregate(kind)

InstSpec == AggInit /\ [][InstNext]_vars

----------------------------------------------------------------------------
(* One request body: request_func takes it from the builder and call()     *)
(* posts it.                                                                *)

(* The value of a parameter that is set. *)
ParamValue == 1

(* request_func: request_builder.__next__() *)
BuildBody ==
    /\ posted.body = None
    /\ posted' = [body |-> Some(__next__(request_builder)), sent |-> FALSE]
    /\ UNCHANGED <<now, runVars, reqVars, agg, request_builder, apiVars>>

(* call(): the body is forced to streaming and posted. *)
PostBody ==
    /\ posted.body # None
    /\ ~posted.sent
    /\ posted' = [body |-> Some(ForceStream(posted.body[1])), sent |-> TRUE]
    /\ UNCHANGED <<now, runVars, reqVars, agg, request_builder, apiVars>>

BuilderInit ==
    /\ ExecInit
    /\ duration = None
    /\ max_concurrency = 1
    /\ rq = RequesterIdle
    /\ backoff = FALSE
    /\ exposes_response = FALSE
    /\ agg = NewAggregator(1, TRUE)
    /\ request_builder \in [BuilderParams -> {None, Some(ParamValue)}]
    /\ posted = NothingPosted
    /\ ApiIdle

BuilderNext ==
    \/ BuildBody
    \/ PostBody

BuilderSpec == BuilderInit /\ [][BuilderNext]_vars

----------------------------------------------------------------------------
(* api: the jobs and their threads *)

(* POST /benchmark: the previous job is cancelled, the new one is queued   *)
(* and becomes current_job, and run() is handed to the default executor.   *)
start_benchmark(req) ==
    /\ Len(jobs) < MaxJobs
    /\ jobs' = Append(CancelPrevious(jobs, current_job, now),
                      BenchmarkJob(req, now))
    /\ current_job' = Some(Len(jobs) + 1)
    /\ UNCHANGED <<now, runVars, reqVars, agg, request_builder, posted>>

(* run(): under the lock the job is marked running; load(req) begins. *)
run_marks_running(j) ==
    /\ jobs[j].thread = "scheduled"
    /\ jobs' = [jobs EXCEPT ![j] =
                  [@ EXCEPT !.status = "running", !.started_at = Some(now),
                            !.thread = "loading"]]
    /\ UNCHANGED <<now, runVars, reqVars, agg, request_builder, posted,
                   current_job>>

(* run(): load(req) ends. *)
run_load_ends(j) ==
    /\ jobs[j].thread = "loading"
    /\ \E outcome \in LoadOutcomes(jobs[j].request) :
         jobs' = [jobs EXCEPT ![j] = AfterLoad(@, outcome, now)]
    /\ UNCHANGED <<now, runVars, reqVars, agg, request_builder, posted,
                   current_job>>

(* Time passes. *)
JobTick ==
    /\ now + TimeQuantum <= MaxTime
    /\ now' = now + TimeQuantum
    /\ UNCHANGED <<runVars, reqVars, otherVars>>

JobNext ==
    \/ \E d \in RequestDurations : start_benchmark([duration |-> d])
    \/ \E j \in JobIds : run_marks_running(j)
    \/ \E j \in JobIds : run_load_ends(j)
    \/ JobTick

JobSpec == AggInit /\ [][JobNext]_vars

----------------------------------------------------------------------------
(* Properties of the executor, checked under Spec *)

(* The tasks that have been dispatched and have not completed. *)
InFlight == {t \in TaskIds : tasks[t].st \in {"created", "calling"}}

(* C3: in every reachable state of the run loop, whatever the order in     *)
(* which the tasks complete, at most max_concurrency + 1 dispatched tasks  *)
(* have not yet completed.                                                  *)
C3_InFlightBound == Cardinality(InFlight) <= max_concurrency + 1

(* The bound is met: max_concurrency + 1 tasks in flight, the loop waiting *)
(* for a free slot.                                                         *)
C3_Witness == Cardinality(InFlight) = max_concurrency + 1 /\ pc = "wait"

(* C4 as stated: no request is dispatched at a moment when the deadline    *)
(* has already passed or the stop flag is already set.                     *)
C4_NoLateDispatch == \A t \in TaskIds : ~tasks[t].late

(* C4 amended: a loop iteration begins (the loop suspends in the rate      *)
(* limiter) only while the stop flag is unset and no end-of-run test has   *)
(* found the deadline elapsed; a request dispatched with the flag set or   *)
(* the deadline passed is the last one dispatched, and after it the loop   *)
(* is never again in an iteration.                                          *)
C4_AdmissionStops ==
    /\ [][(pc # "acquire" /\ pc' = "acquire")
            => (~terminate /\ ~run_end_conditions_met)]_vars
    /\ [](\A t \in TaskIds : tasks[t].late =>
             /\ t = calls_made
             /\ pc \notin {"acquire", "wait"}
             /\ terminate \/ run_end_conditions_met)

(* A request was dispatched after the deadline had passed, the stop flag   *)
(* unset: the deadline passed while the loop was suspended.                *)
C4_Witness == \E t \in TaskIds : tasks[t].late /\ ~terminate

(* The drain wait is over: every tracked task is done, or the grace period *)
(* has expired.                                                             *)
DrainOver ==
    \/ \A t \in request_tasks : TaskDone(t)
    \/ now - drain_start >= DRAIN_TIMEOUT

(* C5: finish_run_func is invoked once per run, only after the admission   *)
(* loop has ended and the drain wait is over, it has been invoked when the *)
(* run has ended, and no request is dispatched after it.                   *)
C5_FinishOnce ==
    /\ [](/\ finish_calls <= 1
          /\ finish_calls = 1 =>
               /\ pc \in {"closing", "stopped"}
               /\ terminate \/ run_end_conditions_met
               /\ DrainOver
          /\ pc \in {"closing", "stopped"} => finish_calls = 1)
    /\ [][finish_calls >= 1 => calls_made' = calls_made]_vars

(* finish_run_func has been invoked after the grace period expired with a  *)
(* tracked task still unfinished.                                           *)
C5_Witness ==
    /\ finish_calls = 1
    /\ \E t \in request_tasks : ~TaskDone(t)
    /\ now - drain_start >= DRAIN_TIMEOUT

(* C6 as stated: once finish_run_func has been invoked, the completion of  *)
(* a request task changes nothing in the aggregator.                       *)
C6_CompletionIgnoredAfterFinish ==
    [][(/\ finish_calls >= 1
        /\ \E t \in TaskIds : tasks[t].st = "calling" /\ tasks'[t].st = "done")
          => aggregator' = aggregator]_vars

(* C7 as stated, its first stage: the first signal delivered while the     *)
(* executor is running sets the stop flag.                                 *)
C7_FirstSignalSetsFlag ==
    [][(signals = 0 /\ signals' = 1 /\ Running) => terminate']_vars

(* C8: the failure of a request never aborts the run.  The loop leaves the *)
(* admission only on the stop flag or the deadline; a failed task frees    *)
(* its slot like any finished task; and the step that ends a task changes  *)
(* neither the state of the loop nor any other task.                       *)
C8_FailureIsolated ==
    /\ [](pc \in {"drain", "closing", "stopped"}
            => (terminate \/ run_end_conditions_met))
    /\ []((/\ alive /\ pc = "wait"
           /\ \E t \in request_tasks : tasks[t].st = "failed")
            => ENABLED WaitFirstCompleted)
    /\ [][\A t \in TaskIds :
            (tasks'[t].st # tasks[t].st /\ tasks'[t].st \in {"failed", "done"})
              => /\ UNCHANGED execVars
                 /\ \A u \in TaskIds \ {t} : tasks'[u] = tasks[u]]_vars

(* A request was dispatched after an earlier one had failed. *)
C8_Witness == \E t \in TaskIds : tasks[t].after_failure

(* The rate limiter admits: its acquire, made once on entering "async with *)
(* self.rate_limiter", returns.  The limiter suspends the caller until a   *)
(* slot is free and never fails; when it returns is not followed.          *)
Acquires == pc = "acquire" /\ pc' # "acquire"

(* The step dispatches a request. *)
Dispatches == calls_made' = calls_made + 1

(* C30: admission is gated.  An iteration of the loop enters the rate      *)
(* limiter once, and a request is dispatched only by the step in which the *)
(* acquire returns or, over the bound, by the wait that follows it; when   *)
(* the tracked set is larger than max_concurrency the acquire is followed  *)
(* by the wait and not by a dispatch; and the wait ends only when a        *)
(* tracked task is done, leaving tracked the tasks that are not done and   *)
(* the request it dispatches.                                               *)
C30_AdmissionGated ==
    /\ [][Dispatches => (pc \in {"acquire", "wait"} /\ pc' = "loop")]_vars
    /\ [][(pc' = "acquire" /\ pc # "acquire") => pc = "loop"]_vars
    /\ [][(pc' = "wait" /\ pc # "wait") => Acquires]_vars
    /\ [][Acquires =>
            IF OverConcurrency(request_tasks)
            THEN pc' = "wait" /\ ~Dispatches
                   /\ request_tasks' = request_tasks
            ELSE Dispatches
                   /\ request_tasks' = request_tasks \cup {calls_made'}]_vars
    /\ [][(pc = "wait" /\ pc' # "wait") =>
            /\ \E t \in request_tasks : TaskDone(t)
            /\ Dispatches
            /\ request_tasks' =
                 {t \in request_tasks : ~TaskDone(t)} \cup {calls_made'}]_vars

(* Over the bound the loop has waited, dropped the finished tasks and      *)
(* dispatched the next request.                                             *)
C30_Witness ==
    /\ pc = "loop"
    /\ calls_made = max_concurrency + 2
    /\ calls_made \in request_tasks
    /\ \E t \in 1..calls_made : t \notin request_tasks /\ TaskDone(t)

(* C33 as stated: when the run loop has ended normally (the deadline found *)
(* elapsed, no stop flag, the drain over, finish_run_func invoked), _run   *)
(* ends without an exception, so that run() returns to _run_load.          *)
C33_RunReturnsNormally ==
    (/\ pc = "stopped"
     /\ run_end_conditions_met /\ ~terminate
     /\ finish_calls = 1) => run_error = None

(* The requests dispatched when the stop flag was set or the deadline had  *)
(* passed.                                                                  *)
LateDispatches == {t \in TaskIds : tasks[t].late}

(* C35: once the stop flag is set or the deadline has passed, at most one  *)
(* further request is dispatched; the step that dispatches it returns to   *)
(* the head of the loop, where no new iteration can begin, and the loop is *)
(* left for the drain wait (the request just dispatched is tracked).       *)
C35_OneMoreThenDrain ==
    /\ [](Cardinality(LateDispatches) <= 1)
    /\ [][(Dispatches /\ (terminate \/ DeadlinePassed))
            => (pc' = "loop" /\ calls_made' \in request_tasks'
                  /\ ~(ENABLED LoopEnter)')]_vars
    /\ [][(pc = "loop" /\ pc' # "loop" /\ LateDispatches # {})
            => (pc' = "drain" /\ calls_made' = calls_made)]_vars

(* The stop flag was set while the loop waited for a free slot; the wait   *)
(* ended, one more request was dispatched, and the loop is draining.       *)
C35_Witness ==
    /\ pc = "drain"
    /\ terminate /\ ~run_end_conditions_met
    /\ Cardinality(LateDispatches) = 1
    /\ calls_made = max_concurrency + 2

(* C36 as stated, checked under HangSpec: with a finite duration and a     *)
(* rate limiter that always eventually admits, the run eventually leaves   *)
(* the admission loop for the drain, which its timeout ends and which      *)
(* finish_run_func follows, even if requests in flight never complete      *)
(* (unless the process is ended by a signal, or the loop has dispatched    *)
(* MaxCalls requests).                                                      *)
C36_DeadlineObserved ==
    (duration # None) =>
        <>(\/ pc \in {"drain", "closing", "stopped"}
           \/ ~alive
           \/ calls_made = MaxCalls)

(* The requests that are being processed: record_new_request has been     *)
(* called for them and aggregate_request has not.                           *)
Processing == {t \in TaskIds : tasks[t].st = "calling"}

(* The step is request_func's call of record_new_request for a task, or of *)
(* aggregate_request.                                                       *)
Records == \E t \in TaskIds : tasks[t].st = "created" /\ tasks'[t].st = "calling"
Aggregated == \E t \in TaskIds : tasks[t].st = "calling" /\ tasks'[t].st = "done"

(* C37: processing_requests_count is the number of requests recorded minus *)
(* the number aggregated.  It starts at 0, a record adds one, an aggregate *)
(* takes one, nothing else changes it; it is never negative; during the    *)
(* run it is the number of requests being processed; and the end of the    *)
(* run leaves it as it is, so that it ends at 0 only if no recorded        *)
(* request was left unaggregated.                                           *)
C37_ProcessingCount ==
    /\ [](aggregator.processing_requests_count >= 0)
    /\ [](pc = "idle" => aggregator.processing_requests_count = 0)
    /\ [][aggregator'.processing_requests_count =
            aggregator.processing_requests_count
              + (IF Records THEN 1 ELSE 0)
              - (IF Aggregated THEN 1 ELSE 0)]_vars
    /\ [](pc # "stopped" =>
            aggregator.processing_requests_count = Cardinality(Processing))
    /\ [][pc' = "stopped" =>
            aggregator'.processing_requests_count =
                Cardinality(Processing)]_vars

(* The run has ended with a request cancelled in its call: the count stays *)
(* above 0.                                                                 *)
C37_Witness ==
    /\ pc = "stopped"
    /\ aggregator.processing_requests_count > 0
    /\ aggregator.total_requests_count > 0

----------------------------------------------------------------------------
(* Properties of the requester, checked under ReqSpec *)

(* C1: whenever call() has returned, the returned RequestStats has a       *)
(* response_end_time that is not None, whatever the outcome was.           *)
C1_EndTimeSet == rq.pc = "returned" => rq.stats.response_end_time # None

(* call() has returned after the POST raised: no response was received and *)
(* the exception is recorded.                                              *)
C1_Witness ==
    /\ rq.pc = "returned"
    /\ rq.stats.response_status_code = 0
    /\ rq.stats.last_exception # None

(* C2 as stated: no exception ever leaves call(), cancellation included.   *)
C2_NeverRaises == rq.pc # "raised"

(* C2 amended: a failure raised as an Exception inside the exchange        *)
(* (transport error, status escalated by raise_for_status, stream-parsing  *)
(* error) ends with call() returning stats whose last_exception is set,    *)
(* and call() returns without last_exception only after a response that    *)
(* was not escalated; the only exception that leaves call() is the         *)
(* CancelledError of a cancelled task, after response_end_time was set.    *)
C2_FailuresCaptured ==
    /\ rq.pc = "raised" =>
         /\ rq.raised = Some("CancelledError")
         /\ rq.stats.response_end_time # None
    /\ rq.pc = "returned" =>
         /\ rq.raised = None
         /\ (rq.stats.last_exception = None) <=> (rq.call_exc = None)
         /\ rq.stats.last_exception = None =>
              /\ rq.response.status # 0
              /\ backoff => rq.response.status < 400

(* The task was cancelled while call() was reading the stream: the         *)
(* CancelledError has left call().                                          *)
C2_Witness == rq.pc = "raised" /\ rq.stats.response_time # None

(* C9: with backoff disabled, once an attempt has returned 429 the call    *)
(* has returned, one attempt was made, the stats carry 429 and no sleep    *)
(* took place, whatever the retry-after-ms header of the response.         *)
C9_NoRetryWhenDisabled ==
    (~backoff /\ rq.response.status = 429) =>
        /\ rq.pc = "returned"
        /\ rq.stats.calls = 1
        /\ rq.posts = 1
        /\ rq.sleeps = 0
        /\ rq.stats.response_status_code = 429

(* Backoff is disabled and the 429 carried a retry-after-ms header.        *)
C9_Witness ==
    /\ ~backoff
    /\ rq.response.status = 429
    /\ rq.response.retry_after # NoHeader
    /\ rq.pc = "returned"

(* C10: once an attempt has returned a status other than 200 and 429, the  *)
(* call has returned with that status in its stats and no further attempt  *)
(* is posted, with backoff enabled or disabled.                            *)
C10_OnlyThrottlingRetried ==
    /\ [](rq.response.status \notin {0, 200, 429} =>
            /\ rq.pc = "returned"
            /\ rq.stats.response_status_code = rq.response.status)
    /\ [][rq.response.status \notin {0, 200, 429}
            => rq'.posts = rq.posts]_vars

(* With backoff enabled, a second attempt, made after a 429, returned 500  *)
(* and the call has returned.                                              *)
C10_Witness ==
    /\ backoff
    /\ rq.response.status = 500
    /\ rq.posts = 2
    /\ rq.pc = "returned"

(* The retry-after-ms header carries a number. *)
Parseable(hdr) == hdr # NoHeader /\ hdr[1] = "ms"

(* C11: with backoff enabled, the retry-after sleep is entered only on a   *)
(* 429 with a parseable hint of T ms and ends no earlier than T ms after   *)
(* the 429 was received; the next attempt is posted by the step that ends  *)
(* that sleep, not before its end, and the decorator's backoff sleep never *)
(* follows a 429 that carried a parseable hint.                            *)
C11_RetryAfterHonoured ==
    /\ [][(rq.pc = "post" /\ rq'.pc = "retry_sleep") =>
            /\ backoff
            /\ rq'.response.status = 429
            /\ Parseable(rq'.response.retry_after)
            /\ (rq'.wake_at - now) * 1000 >= rq'.response.retry_after[2]]_vars
    /\ [][(rq.pc = "retry_sleep" /\ rq'.posts # rq.posts) =>
            /\ now >= rq.wake_at
            /\ rq'.pc = "post"
            /\ rq'.posts = rq.posts + 1]_vars
    /\ [](rq.pc = "backoff_sleep" => ~Parseable(rq.response.retry_after))
    /\ []((backoff /\ rq.response.status = 429
             /\ Parseable(rq.response.retry_after) /\ rq.pc = "post")
            => now >= rq.wake_at)

(* The second attempt has been posted after a retry-after sleep of a       *)
(* clock quantum.                                                           *)
C11_Witness ==
    /\ rq.pc = "post"
    /\ rq.posts = 2
    /\ Parseable(rq.response.retry_after)
    /\ rq.wake_at > 0
    /\ now >= rq.wake_at

(* The model's bounds stop the exchange: a sleep that ends after MaxTime,  *)
(* or an attempt beyond MaxPosts.                                           *)
Capped ==
    /\ rq.pc \in {"retry_sleep", "backoff_sleep"}
    /\ IF now < rq.wake_at THEN now + TimeQuantum > MaxTime
       ELSE IF rq.pc = "retry_sleep" THEN AttemptLoop(rq).posts > MaxPosts
       ELSE EnterCall(rq).posts > MaxPosts

(* Every attempt so far was answered, with 429, and the task was not       *)
(* cancelled.                                                               *)
OnlyThrottled ==
    /\ rq.response.status \in {0, 429}
    /\ rq.pc # "raised"
    /\ rq.pc = "returned" => rq.response.status = 429

(* C12: with backoff enabled the call does not retry forever.  No attempt  *)
(* after the first is posted once 60 s have passed since call() began      *)
(* (aiohttp's ClientResponseError has no attribute response, so the        *)
(* decorator never re-enters _call); a call that returns after a 429       *)
(* carries status 429 and last_exception; and a call whose attempts are    *)
(* all answered with 429 eventually returns.                                *)
C12_RetriesEnd ==
    /\ [][(~exposes_response /\ rq'.posts > rq.posts) =>
            (rq.posts = 0 \/ now - rq.backoff_start < MAX_RETRY_SECONDS)]_vars
    /\ []((backoff /\ rq.pc = "returned" /\ rq.response.status = 429) =>
            /\ rq.stats.response_status_code = 429
            /\ rq.stats.last_exception # None)
    /\ <>(~OnlyThrottled \/ Capped \/ rq.pc = "returned")

(* Every attempt was throttled with a retry-after hint, the budget ran out *)
(* during the second sleep and the call has returned.                      *)
C12_Witness ==
    /\ backoff /\ ~exposes_response
    /\ rq.pc = "returned"
    /\ rq.posts = 2
    /\ rq.sleeps = 2
    /\ rq.stats.response_status_code = 429
    /\ rq.stats.last_exception # None
    /\ now - rq.backoff_start >= MAX_RETRY_SECONDS

(* C13 as stated: an attempt whose POST raises a connection error is       *)
(* followed by the decorator's backoff sleep and a retry, unless the 60 s  *)
(* budget is exhausted.                                                     *)
C13_TransportErrorRetried ==
    [][PostRaises("ClientConnectionError") =>
         \/ rq'.pc = "backoff_sleep"
         \/ now - rq.backoff_start >= MAX_RETRY_SECONDS]_vars

(* C14: when call() has returned, stats.calls is the number of POST        *)
(* attempts issued for the request, the attempts made after a retry-after  *)
(* sleep or a backoff sleep and the attempts whose POST raised included.   *)
C14_CallsCountAttempts == rq.pc = "returned" => rq.stats.calls = rq.posts

(* The first attempt was throttled, the second attempt's POST raised.      *)
C14_Witness ==
    /\ rq.pc = "returned"
    /\ rq.posts = 2
    /\ rq.stats.response_status_code = 429
    /\ rq.call_exc = Some("TimeoutError")

(* The concatenation of the content fragments of a sequence of frames. *)
RECURSIVE Concat(_)
Concat(fs) == IF fs = << >> THEN << >> ELSE Head(fs).content \o Concat(Tail(fs))

(* A role frame, then content frames only, then the end sentinel. *)
RoleThenContent(fs) ==
    /\ Len(fs) >= 2
    /\ fs[1].kind = "role"
    /\ fs[Len(fs)].kind = "done"
    /\ \A i \in 2..(Len(fs) - 1) : fs[i].kind = "content"

(* The role frames among the frames read. *)
RoleFrames(fs) == {i \in 1..Len(fs) : fs[i].kind = "role"}

(* C15: a 200 whose stream is a role frame, k content frames and the end   *)
(* sentinel returns generated_tokens = k and one output-content entry with *)
(* that role and the k fragments concatenated in order; and every role     *)
(* frame starts a new entry with empty text.                               *)
C15_StreamAssembled ==
    /\ (rq.pc = "returned" /\ RoleThenContent(rq.frames)) =>
         /\ rq.stats.generated_tokens = Some(Len(rq.frames) - 2)
         /\ rq.stats.output_content =
              << [role |-> rq.frames[1].role,
                  content |-> Concat(SubSeq(rq.frames, 2, Len(rq.frames) - 1))] >>
         /\ rq.stats.last_exception = None
    /\ (rq.pc = "stream" /\ rq.frames # << >>
          /\ rq.frames[Len(rq.frames)].kind = "role") =>
         /\ Len(rq.stats.output_content) = Cardinality(RoleFrames(rq.frames))
         /\ rq.stats.output_content[Len(rq.stats.output_content)] =
              [role |-> rq.frames[Len(rq.frames)].role, content |-> << >>]

(* The stream role, "A", "B", [DONE] has been read and call() has          *)
(* returned.                                                                *)
C15_Witness ==
    /\ rq.pc = "returned"
    /\ RoleThenContent(rq.frames)
    /\ Concat(SubSeq(rq.frames, 2, Len(rq.frames) - 1)) = <<"A", "B">>
    /\ rq.stats.generated_tokens = Some(2)

(* The content frames among the frames read. *)
ContentFrames(fs) == {i \in 1..Len(fs) : fs[i].kind = "content"}

(* C16 as stated: in a stream that starts with a role frame and goes on    *)
(* with content frames, the step that handles the first content frame sets *)
(* first_token_time to the time of that step, and no other step changes    *)
(* first_token_time: the role frame does not set it, later frames do not   *)
(* overwrite it.                                                            *)
C16_FirstTokenAtFirstContent ==
    [][(/\ rq.pc = "stream"
        /\ Len(rq'.frames) = Len(rq.frames) + 1
        /\ rq'.frames[1].kind = "role"
        /\ \A i \in 2..Len(rq'.frames) :
              rq'.frames[i].kind \in {"content", "done"})
         => IF rq'.frames[Len(rq'.frames)].kind = "content"
                 /\ ContentFrames(rq.frames) = {}
            THEN rq'.stats.first_token_time = Some(now)
            ELSE rq'.stats.first_token_time = rq.stats.first_token_time]_vars

(* The lines the parser is to skip: no data: prefix, malformed JSON, no    *)
(* choices (an object without them, or a payload that is not an object),   *)
(* an empty delta.                                                          *)
NoiseKinds == {"nondata", "malformed", "nonobject", "nochoices", "emptydelta"}

(* C17 as stated: a line the parser is to skip changes neither             *)
(* generated_tokens nor the output content and does not make the call      *)
(* fail: the parse goes on with the next line.                             *)
C17_NoiseIgnored ==
    [][(/\ rq.pc = "stream"
        /\ Len(rq'.frames) = Len(rq.frames) + 1
        /\ rq'.frames[Len(rq'.frames)].kind \in NoiseKinds)
         => /\ rq'.pc = "stream"
            /\ rq'.stats.generated_tokens = rq.stats.generated_tokens
            /\ rq'.stats.output_content = rq.stats.output_content
            /\ rq'.stats.last_exception = None]_vars

(* Two optional timestamps are in order when both are set. *)
Ordered(a, b) == a = None \/ b = None \/ a[1] <= b[1]

(* The timestamps of a RequestStats are in order. *)
TimestampsOrdered(stats) ==
    /\ Ordered(stats.request_start_time, stats.response_time)
    /\ Ordered(stats.request_start_time, stats.first_token_time)
    /\ Ordered(stats.request_start_time, stats.response_end_time)
    /\ Ordered(stats.response_time, stats.first_token_time)
    /\ Ordered(stats.response_time, stats.response_end_time)
    /\ Ordered(stats.first_token_time, stats.response_end_time)

(* C18: in the RequestStats call() returns, the timestamps that are set    *)
(* are ordered request_start_time <= response_time <= first_token_time <=  *)
(* response_end_time, whatever the sequence of attempts (aiohttp's         *)
(* ClientResponseError has no attribute response: the attempts after the   *)
(* first are those of the retry-after loop).                               *)
C18_TimestampsOrdered ==
    (~exposes_response /\ rq.pc = "returned") => TimestampsOrdered(rq.stats)

(* The first attempt was throttled, the retry was answered with 200 and    *)
(* streamed, and time passed between the four instants.                    *)
C18_Witness ==
    /\ ~exposes_response
    /\ rq.pc = "returned"
    /\ rq.posts = 2
    /\ rq.stats.first_token_time # None
    /\ rq.stats.request_start_time[1] < rq.stats.response_time[1]
    /\ rq.stats.response_time[1] < rq.stats.response_end_time[1]

----------------------------------------------------------------------------
(* Properties of the aggregator, checked under AggSpec *)

(* The raw record the step has appended. *)
Appended == aggregator'.raw_stat_dicts[Len(aggregator'.raw_stat_dicts)]

(* The step is an aggregate_request: it appends a raw record. *)
Aggregates ==
    Len(aggregator'.raw_stat_dicts) = Len(aggregator.raw_stat_dicts) + 1

(* C19: aggregating a record whose status is not 200 takes one from        *)
(* processing_requests_count, adds one to total_requests_count and to      *)
(* total_failed_count, adds one to throttled_count exactly when the status *)
(* is 429, and leaves the latency, timestamp and token windows unchanged.  *)
C19_FailureCounted ==
    [][(Aggregates /\ Appended.response_status_code # 200) =>
         /\ aggregator'.processing_requests_count =
              aggregator.processing_requests_count - 1
         /\ aggregator'.total_requests_count =
              aggregator.total_requests_count + 1
         /\ aggregator'.total_failed_count = aggregator.total_failed_count + 1
         /\ aggregator'.throttled_count =
              aggregator.throttled_count
                + (IF Appended.response_status_code = 429 THEN 1 ELSE 0)
         /\ aggregator'.request_latency = aggregator.request_latency
         /\ aggregator'.request_timestamps = aggregator.request_timestamps
         /\ aggregator'.response_latencies = aggregator.response_latencies
         /\ aggregator'.first_token_latencies =
              aggregator.first_token_latencies
         /\ aggregator'.token_latencies = aggregator.token_latencies
         /\ aggregator'.context_tokens = aggregator.context_tokens
         /\ aggregator'.generated_tokens = aggregator.generated_tokens]_vars

(* A 500 has been aggregated after a streamed 200: it counts as failed,    *)
(* not as throttled, and the 200's samples are the only ones.              *)
C19_Witness ==
    /\ Len(aggregator.raw_stat_dicts) = 2
    /\ aggregator.raw_stat_dicts[2].response_status_code = 500
    /\ aggregator.total_failed_count = 1
    /\ aggregator.throttled_count = 0
    /\ Len(aggregator.request_latency) = 1
    /\ Len(aggregator.token_latencies) = 1

(* C20: one bad record is isolated.  Every aggregate_request, also of      *)
(* stats whose samples cannot be computed, takes one from                  *)
(* processing_requests_count, adds one to total_requests_count and appends *)
(* one raw record, that of the stats it was given; so the raw records are  *)
(* as many as total_requests_count.                                        *)
C20_BadRecordIsolated ==
    /\ [](Len(aggregator.raw_stat_dicts) = aggregator.total_requests_count)
    /\ [][(aggregator'.processing_requests_count
             < aggregator.processing_requests_count) =>
            /\ aggregator'.processing_requests_count =
                 aggregator.processing_requests_count - 1
            /\ aggregator'.total_requests_count =
                 aggregator.total_requests_count + 1
            /\ aggregator'.raw_stat_dicts
                 = Append(aggregator.raw_stat_dicts, Appended)]_vars
    /\ [](aggregator.processing_requests_count > 0 =>
            \A kind \in AggKinds : ENABLED AggAggregate(kind))

(* A 200 without first_token_time was aggregated, then a streamed 200: the *)
(* first left its raw record and the samples computed before the failure,  *)
(* the second all its samples.                                             *)
C20_Witness ==
    /\ Len(aggregator.raw_stat_dicts) = 2
    /\ aggregator.raw_stat_dicts[1].response_status_code = 200
    /\ aggregator.raw_stat_dicts[1].first_token_time = None
    /\ aggregator.raw_stat_dicts[2].first_token_time # None
    /\ Len(aggregator.request_latency) = 2
    /\ Len(aggregator.first_token_latencies) = 1
    /\ aggregator.total_requests_count = 2

(* C21: aggregating a status-200 record whose generated_tokens is 0 or     *)
(* None skips the token-latency sample only: the step appends one sample   *)
(* to each of request_latency, request_timestamps, context_tokens and      *)
(* generated_tokens, and leaves token_latencies as it was.                 *)
C21_OnlyTokenLatencySkipped ==
    [][(/\ Aggregates
        /\ Appended.response_status_code = 200
        /\ Appended.generated_tokens \in {None, Some(0)}) =>
         /\ aggregator'.token_latencies = aggregator.token_latencies
         /\ Len(aggregator'.request_latency)
              = Len(aggregator.request_latency) + 1
         /\ Len(aggregator'.request_timestamps)
              = Len(aggregator.request_timestamps) + 1
         /\ Len(aggregator'.context_tokens)
              = Len(aggregator.context_tokens) + 1
         /\ Len(aggregator'.generated_tokens)
              = Len(aggregator.generated_tokens) + 1]_vars

(* C38 as stated: a record with status 200 enters the success windows all  *)
(* or nothing.  With no prune in between, the windows of the end-to-end    *)
(* latency, the request timestamps, the response latency, the time to the  *)
(* first token, the context tokens and the generated tokens hold the same  *)
(* number of samples, whatever the 200 responses carried.                  *)
C38_SuccessWindowsAligned ==
    \A w \in {"request_timestamps", "response_latencies",
              "first_token_latencies", "context_tokens", "generated_tokens"} :
        Len(aggregator[w]) = Len(aggregator.request_latency)

----------------------------------------------------------------------------
(* Properties of the aggregator thread, checked under TickSpec, StopSpec   *)
(* and ReaderSpec                                                           *)

(* The sample windows whose timestamps are numbers. *)
Windows ==
    {"request_timestamps", "request_latency", "response_latencies",
     "first_token_latencies", "token_latencies", "context_tokens",
     "generated_tokens"}

(* Every sample of the window is no older than window seconds at t. *)
Recent(samples, window, t) ==
    \A i \in 1..Len(samples) : t - samples[i][1] <= window

(* The step is the _slide_window() of the thread's loop. *)
Slides == agg.pc = "dumped" /\ agg'.pc = "waiting"

(* C22: right after _slide_window(), every sample of every window, the     *)
(* request_latency window included, has a timestamp no older than          *)
(* window_duration, in whatever order the requests were aggregated.        *)
C22_WindowsPruned ==
    [][Slides =>
         \A w \in Windows :
            Recent(aggregator'[w], agg.window_duration, now)]_vars

(* The threads that are inside the body of a method. *)
Inside == {t \in Threads : agg.th[t].at # "idle"}

(* C23: record_new_request, aggregate_request, _dump, _slide_window and    *)
(* get_latest_metrics run their body under the one lock: at most one       *)
(* thread is inside a body at a time and it holds the lock; the counters   *)
(* and windows change only by the step of the thread that holds the lock;  *)
(* and a mapping _dump assigns shows the counters of one state, with       *)
(* processing and completed_requests as they stand together.               *)
C23_Serialized ==
    /\ [](/\ Cardinality(Inside) <= 1
          /\ \A t \in Inside : agg.lock = Some(t))
    /\ [][aggregator' # aggregator =>
            /\ agg.lock # None
            /\ agg.th[agg.lock[1]].at # "idle"
            /\ \A t \in Threads \ {agg.lock[1]} : agg'.th[t] = agg.th[t]]_vars
    /\ [][agg'._latest_metrics # agg._latest_metrics =>
            /\ agg'._latest_metrics[1].processing =
                 aggregator.processing_requests_count
            /\ agg'._latest_metrics[1].completed_requests =
                 aggregator.total_requests_count]_vars

(* The thread of the request tasks waits for the lock while the            *)
(* aggregator's thread is inside _dump, with a request in processing.      *)
C23_Witness ==
    /\ agg.th["ticker"].at = "half"
    /\ agg.th["ticker"].op = "_dump"
    /\ agg.th["task"].at = "idle"
    /\ aggregator.processing_requests_count > 0
    /\ aggregator.total_requests_count > 0
    /\ ~ENABLED LkEnter("task", "aggregate_request", "ok")

(* The step is a _dump() of the thread's loop. *)
Dumps == agg.pc = "waiting" /\ agg'.pc \in {"dumped", "crashed"}

(* C24: get_latest_metrics() returns the mapping one _dump assigned, whole *)
(* (_latest_metrics changes only to the mapping _dump computes in that     *)
(* step), and the empty mapping only until the first _dump (a _dump of the *)
(* loop leaves a mapping and a mapping once assigned is never emptied);    *)
(* what it returns is a copy: a caller that changes the mapping it was     *)
(* returned leaves _latest_metrics, and so what later calls return, as it  *)
(* was.                                                                     *)
C24_SnapshotWholeAndCopied ==
    /\ [][agg'._latest_metrics # agg._latest_metrics =>
            agg'._latest_metrics = _dump(aggregator, agg, now)._latest_metrics]_vars
    /\ [][Dumps => agg'._latest_metrics # None]_vars
    /\ [][agg._latest_metrics # None => agg'._latest_metrics # None]_vars
    /\ [][(agg'.ret # agg.ret /\ agg'.ret[1].value # Mutated) =>
            agg'.ret[1].value = agg._latest_metrics]_vars
    /\ [][(agg'.ret # agg.ret /\ agg'.ret[1].value = Mutated) =>
            agg'._latest_metrics = agg._latest_metrics]_vars
    /\ [](agg._latest_metrics # Mutated)

(* A reader changed the mapping it was returned after a _dump that counted *)
(* a completed request; the latest metrics are those of the _dump.         *)
C24_Witness ==
    /\ agg.ret # None
    /\ agg.ret[1].value = Mutated
    /\ agg._latest_metrics # None
    /\ agg._latest_metrics[1].completed_requests > 0
    /\ agg.pc = "waiting"

(* The counters of the latest metrics are at least those of c. *)
Includes(c) ==
    /\ agg._latest_metrics # None
    /\ agg._latest_metrics[1].completed_requests >= c.completed
    /\ agg._latest_metrics[1].failed_requests >= c.failed
    /\ agg._latest_metrics[1].throttled_requests >= c.throttled

(* C25: stop() makes one last _dump.  When stop() returns the latest       *)
(* metrics carry the counters as they stand, and from then on they include *)
(* every request aggregated before stop() was called; and once terminate   *)
(* is set the loop of run() ends at its wait: it leaves without a further  *)
(* interval and takes no _dump from there.                                  *)
C25_FinalDump ==
    /\ [][(agg.stop = "set" /\ agg'.stop = "returned") =>
            /\ agg'._latest_metrics # None
            /\ agg'._latest_metrics[1].completed_requests =
                 aggregator.total_requests_count
            /\ agg'._latest_metrics[1].failed_requests =
                 aggregator.total_failed_count
            /\ agg'._latest_metrics[1].throttled_requests =
                 aggregator.throttled_count]_vars
    /\ [](agg.stop = "returned" => Includes(agg.at_stop[1]))
    /\ []((agg.terminate = Some(TRUE) /\ agg.pc = "waiting") =>
            (ENABLED TkExit /\ ~ENABLED TkDump))
    /\ [][(agg.terminate = Some(TRUE) /\ agg.pc = "waiting"
             /\ agg'.pc # agg.pc) => agg'.pc = "exited"]_vars

(* stop() has returned after a throttled request was aggregated since the  *)
(* last _dump of the loop, and the loop has ended.                          *)
C25_Witness ==
    /\ agg.stop = "returned"
    /\ agg.pc = "exited"
    /\ agg.at_stop[1].throttled > 0
    /\ agg._latest_metrics[1].throttled_requests = agg.at_stop[1].throttled
    /\ agg._latest_metrics[1].run_seconds = 0

(* C27: the periodic _dump never fails.  Every _dump of the loop ends      *)
(* without an exception and leaves the mapping it computed, so the thread  *)
(* goes on to the next wait, and the _dump of stop() does not fail either. *)
C27_TickNeverCrashes ==
    /\ [][Dumps =>
            /\ agg'.pc = "dumped"
            /\ agg'._latest_metrics # None
            /\ agg'._latest_metrics =
                 _dump(aggregator, agg, now)._latest_metrics]_vars
    /\ [](agg.pc # "crashed")
    /\ [](agg.stop_error
            \notin {Some("NameError"), Some("ZeroDivisionError")})

(* C40 as stated: stop() may be called at any moment after start() has     *)
(* returned.  Whatever the thread has executed of run() by then, stop()    *)
(* does not end with an exception, and once stop() has been called the     *)
(* loop of run() is at its end or is told to end.                          *)
C40_StopAnyMoment ==
    /\ agg.stop # "raised"
    /\ agg.stop # "no" =>
         (agg.pc \in {"exited", "crashed"} \/ agg.terminate = Some(TRUE))

----------------------------------------------------------------------------
(* Properties of two aggregators, checked under InstSpec *)

(* The windows and the raw records, as an instance sees them, hold what    *)
(* that instance aggregated: one raw record for each request it counted    *)
(* and no more samples than requests.                                       *)
OwnRecordsOnly(view) ==
    /\ Len(view.raw_stat_dicts) = view.total_requests_count
    /\ \A w \in Windows : Len(view[w]) <= view.total_requests_count

(* C26: every aggregator owns fresh state.  A newly constructed aggregator *)
(* has empty windows and no raw record, and the windows and raw records of *)
(* each instance hold only what was aggregated through it.                 *)
C26_FreshState ==
    /\ [][(agg.second = None /\ agg'.second # None) =>
            /\ aggregator'.raw_stat_dicts = << >>
            /\ \A w \in Windows : aggregator'[w] = << >>]_vars
    /\ [](OwnRecordsOnly(aggregator))
    /\ [](agg.second # None => OwnRecordsOnly(SecondView))

----------------------------------------------------------------------------
(* Properties of the request body, checked under BuilderSpec *)

(* The field of the API that carries a parameter of the builder. *)
ApiField(param) == IF param = "completions" THEN "n" ELSE param

(* C28: a body that is posted has stream true and the messages, carries    *)
(* every parameter that is set under its API field (max_tokens, n,         *)
(* frequency_penalty, presence_penalty, temperature, top_p, model) with    *)
(* its value, and has no field for a parameter that is not set.            *)
C28_BodyFields ==
    posted.sent =>
       LET body == posted.body[1]
       IN /\ "stream" \in DOMAIN body /\ body["stream"] = TRUE
          /\ "messages" \in DOMAIN body /\ body["messages"] = Messages
          /\ \A param \in BuilderParams :
                IF request_builder[param] # None
                THEN /\ ApiField(param) \in DOMAIN body
                     /\ body[ApiField(param)] = request_builder[param][1]
                ELSE ApiField(param) \notin DOMAIN body
          /\ DOMAIN body \subseteq
                {"stream", "messages"}
                   \cup {ApiField(param) : param \in BuilderParams}

----------------------------------------------------------------------------
(* Properties of an executer that is run again, checked under RerunSpec *)

(* C29: stopped is terminal.  An executer whose run has ended stays        *)
(* stopped, and once finish_run_func has been invoked no request is        *)
(* dispatched and finish_run_func is not invoked again, also when run() is *)
(* called again.                                                            *)
C29_StoppedIsTerminal ==
    /\ [][pc = "stopped" => pc' = "stopped"]_vars
    /\ [][finish_calls >= 1 =>
            /\ finish_calls' = finish_calls
            /\ \A t \in TaskIds :
                  tasks'[t].st = "created" => tasks[t].st = "created"]_vars

----------------------------------------------------------------------------
(* Properties of the api jobs, checked under JobSpec *)

(* The load run of the job is generating requests: load(req) is executing  *)
(* and has passed _validate.                                                *)
Generating(j) == jobs[j].thread = "loading" /\ _validate(jobs[j].request)

(* C31 as stated: at most one job is queued or running, and at most one    *)
(* job's load run is generating requests.                                   *)
C31_SingleActiveJob ==
    /\ Cardinality({j \in JobIds : jobs[j].status \in {"queued", "running"}})
         <= 1
    /\ Cardinality({j \in JobIds : Generating(j)}) <= 1

(* The job's status has reached its end. *)
Settled(job) == job.status \in {"completed", "failed"}

(* C32 as stated: the status moves along queued, running, completed or     *)
(* failed, and once a job is completed or failed its status, error and     *)
(* completed_at never change.                                               *)
C32_StatusLifecycle ==
    [][\A j \in JobIds :
         /\ jobs'[j].status # jobs[j].status =>
              <<jobs[j].status, jobs'[j].status>> \in
                 {<<"queued", "running">>, <<"queued", "failed">>,
                  <<"running", "completed">>, <<"running", "failed">>}
         /\ Settled(jobs[j]) =>
              /\ jobs'[j].status = jobs[j].status
              /\ jobs'[j].error = jobs[j].error
              /\ jobs'[j].completed_at = jobs[j].completed_at]_vars

(* C34 as stated, in the form a finite run refutes: no job whose load()    *)
(* call has ended, and with it run(), is left queued or running.           *)
C34_EndedJobSettled ==
    \A j \in JobIds : jobs[j].thread = "ended" => Settled(jobs[j])

====
